---- MODULE Spec2Model ----
(***************************************************************************)
(* Order pipeline of the cafe backend: createOrder, updateOrderStatus,     *)
(* refundOrder (order service), the payment gateway adapter with its       *)
(* webhook handlers (payment.service.ts) and print-job creation            *)
(* (print.service.ts).  Money is kept in minor units (cents).              *)
(***************************************************************************)
EXTENDS Integers, Sequences, FiniteSets, TLC

\* ------------------------------------------------------------------------
\* Bounds of the model
\* ------------------------------------------------------------------------
MaxCalls == 2       \* admin calls (updateOrderStatus / refundOrder) in total
MaxHooks == 1       \* webhook deliveries in total
MaxFailures == 3    \* failure reports of the print agent in total
MaxPrintJobs == 3   \* print job rows after which the staff stop asking for receipts

Reqs == {1}                      \* the createOrder request; its order gets id 1
OrderIds == {1, 2}               \* id 2 never names a row (NotFound)
Admins == {"a1", "a2"}           \* two concurrent admin requests
Fetchers == {"f1", "f2"}         \* two concurrent getPendingJobs requests

\* ------------------------------------------------------------------------
\* Program constants
\* ------------------------------------------------------------------------
TAX_RATE_E4 == 635               \* TAX_RATE = 0.0635, in 1/10000
BASE_PREP_TIME_MINUTES == 5
TIME_PER_5_ITEMS == 2
TIME_ROUNDING == 5
MAX_RETRY_ATTEMPTS == 3           \* attempts: { lt: 3 } in retryFailedJobs

OrderStatus == {"PENDING", "CONFIRMED", "PREPARING", "READY", "COMPLETED", "CANCELLED"}
PaymentStatus == {"PENDING", "PAID", "FAILED", "REFUNDED"}

NoOrder == [status |-> "NONE"]
Null == 0                        \* null / undefined id or amount

\* ------------------------------------------------------------------------
\* Catalog (menu items, modifier groups, modifiers)
\* ------------------------------------------------------------------------
MenuItem ==
  [ burger |-> [name |-> "Burger", isAvailable |-> TRUE, basePrice |-> 895,
                preparationTime |-> 12, printerDestination |-> "KITCHEN",
                modifierGroups |-> <<"extras">>],
    latte  |-> [name |-> "Latte", isAvailable |-> TRUE, basePrice |-> 450,
                preparationTime |-> 3, printerDestination |-> "BEVERAGE",
                modifierGroups |-> <<"size">>],
    combo  |-> [name |-> "Combo", isAvailable |-> TRUE, basePrice |-> 1250,
                preparationTime |-> 15, printerDestination |-> "BOTH",
                modifierGroups |-> <<"sides">>],
    soup   |-> [name |-> "Soup", isAvailable |-> FALSE, basePrice |-> 500,
                preparationTime |-> 5, printerDestination |-> "KITCHEN",
                modifierGroups |-> <<>>] ]

ModifierGroup ==
  [ extras |-> [name |-> "Extras", isRequired |-> FALSE, minSelections |-> 0,
                maxSelections |-> 2],
    size   |-> [name |-> "Size", isRequired |-> TRUE, minSelections |-> 1,
                maxSelections |-> 1],
    sides  |-> [name |-> "Sides", isRequired |-> TRUE, minSelections |-> 2,
                maxSelections |-> 2] ]

Modifier ==
  [ cheese  |-> [name |-> "Cheese", modifierGroupId |-> "extras",
                 priceAdjustment |-> 75, isAvailable |-> TRUE],
    bacon   |-> [name |-> "Bacon", modifierGroupId |-> "extras",
                 priceAdjustment |-> 150, isAvailable |-> TRUE],
    avocado |-> [name |-> "Avocado", modifierGroupId |-> "extras",
                 priceAdjustment |-> 200, isAvailable |-> FALSE],
    small   |-> [name |-> "Small", modifierGroupId |-> "size",
                 priceAdjustment |-> 0 - 50, isAvailable |-> TRUE],
    large   |-> [name |-> "Large", modifierGroupId |-> "size",
                 priceAdjustment |-> 100, isAvailable |-> TRUE],
    fries   |-> [name |-> "Fries", modifierGroupId |-> "sides",
                 priceAdjustment |-> 0, isAvailable |-> TRUE],
    salad   |-> [name |-> "Salad", modifierGroupId |-> "sides",
                 priceAdjustment |-> 50, isAvailable |-> TRUE],
    rice    |-> [name |-> "Rice", modifierGroupId |-> "sides",
                 priceAdjustment |-> 0, isAvailable |-> TRUE] ]

\* group.modifiers as loaded by validateOrderItems: where isAvailable = true
GroupModifiers(g) ==
  {m \in DOMAIN Modifier : Modifier[m].modifierGroupId = g /\ Modifier[m].isAvailable}

\* ------------------------------------------------------------------------
\* Carts submitted to createOrder (CreateOrderDTO.items); a line is
\* [menuItemId, quantity, selectedModifiers]
\* ------------------------------------------------------------------------
Line(m, q, mods) == [menuItemId |-> m, quantity |-> q, selectedModifiers |-> mods]

Carts ==
  { <<Line("burger", 2, <<"cheese">>)>>,
    <<Line("burger", 1, <<>>), Line("latte", 1, <<"large">>)>>,
    <<Line("combo", 1, <<>>)>>,
    <<Line("latte", 1, <<>>)>>,
    <<Line("soup", 1, <<>>)>>,
    <<Line("ghost", 1, <<>>)>>,
    <<Line("burger", 1, <<"avocado">>)>>,
    <<Line("burger", 1, <<"large">>)>>,
    <<Line("latte", 1, <<"small", "large">>)>> }

\* the carts submitted to the order pipeline
OrderCarts ==
  { <<Line("burger", 2, <<"cheese">>), Line("latte", 1, <<"large">>)>>,
    <<Line("soup", 1, <<>>)>>,
    <<Line("burger", 1, <<"large">>)>> }

RECURSIVE SumSeq(_)
SumSeq(s) == IF s = <<>> THEN 0 ELSE Head(s) + SumSeq(Tail(s))

RECURSIVE MaxSeq(_)
MaxSeq(s) == IF s = <<>> THEN 0
             ELSE LET t == MaxSeq(Tail(s)) IN IF Head(s) > t THEN Head(s) ELSE t

\* Math.round(x) for x = num / den (den > 0): nearest integer, halves toward +infinity
RoundDiv(num, den) == (2 * num + den) \div (2 * den)

\* ------------------------------------------------------------------------
\* JavaScript numbers.  Prices are numbers (IEEE 754 binary64): Number() of a
\* Decimal column, +, * and / round to the nearest representable value, ties to
\* even.  A mantissa has 53 bits, so it is kept as a natural number of any size:
\* a little-endian sequence of limbs.
\* ------------------------------------------------------------------------
LimbBits == 15
LimbBase == 2 ^ LimbBits
MantissaBits == 53

Front(a) == SubSeq(a, 1, Len(a) - 1)
Rest(a) == IF a = <<>> THEN <<>> ELSE Tail(a)
Limb(a, i) == IF i <= Len(a) THEN a[i] ELSE 0

RECURSIVE BigNorm(_)
BigNorm(a) == IF a # <<>> /\ a[Len(a)] = 0 THEN BigNorm(Front(a)) ELSE a

RECURSIVE BigOf(_)
BigOf(n) == IF n = 0 THEN <<>> ELSE <<n % LimbBase>> \o BigOf(n \div LimbBase)

RECURSIVE BigToInt(_)
BigToInt(a) == IF a = <<>> THEN 0 ELSE Head(a) + LimbBase * BigToInt(Tail(a))

RECURSIVE BigAddC(_, _, _)
BigAddC(a, b, c) ==
  IF a = <<>> /\ b = <<>> THEN (IF c = 0 THEN <<>> ELSE <<c>>)
  ELSE LET s == Limb(a, 1) + Limb(b, 1) + c IN
       <<s % LimbBase>> \o BigAddC(Rest(a), Rest(b), s \div LimbBase)

BigAdd(a, b) == BigAddC(a, b, 0)

\* a - b for a >= b
RECURSIVE BigSubB(_, _, _)
BigSubB(a, b, c) ==
  IF a = <<>> THEN <<>>
  ELSE LET d == Head(a) - Limb(b, 1) - c IN
       IF d < 0 THEN <<d + LimbBase>> \o BigSubB(Tail(a), Rest(b), 1)
       ELSE <<d>> \o BigSubB(Tail(a), Rest(b), 0)

BigSub(a, b) == BigNorm(BigSubB(a, b, 0))

RECURSIVE BigLess(_, _)
BigLess(a, b) ==
  IF Len(a) # Len(b) THEN Len(a) < Len(b)
  ELSE IF a = <<>> THEN FALSE
  ELSE IF a[Len(a)] # b[Len(b)] THEN a[Len(a)] < b[Len(b)]
  ELSE BigLess(Front(a), Front(b))

\* a * k + c for a limb k
RECURSIVE BigMulC(_, _, _)
BigMulC(a, k, c) ==
  IF a = <<>> THEN BigOf(c)
  ELSE LET p == Head(a) * k + c IN
       <<p % LimbBase>> \o BigMulC(Tail(a), k, p \div LimbBase)

BigMulSmall(a, k) == BigNorm(BigMulC(a, k, 0))

RECURSIVE BigMulAcc(_, _)
BigMulAcc(a, b) ==
  IF b = <<>> THEN <<>>
  ELSE BigAdd(BigMulC(a, Head(b), 0), <<0>> \o BigMulAcc(a, Tail(b)))

BigMul(a, b) == BigNorm(BigMulAcc(a, b))

\* quotient and remainder of a by a limb d, most significant limb first
RECURSIVE BigDivR(_, _, _)
BigDivR(a, d, r) ==
  IF a = <<>> THEN [q |-> <<>>, r |-> r]
  ELSE LET n == r * LimbBase + a[Len(a)]
           low == BigDivR(Front(a), d, n % d) IN
       [q |-> low.q \o <<n \div d>>, r |-> low.r]

NormQuotient(qr) == [q |-> BigNorm(qr.q), r |-> qr.r]

BigDivSmall(a, d) == NormQuotient(BigDivR(a, d, 0))

\* a * 2^k and floor(a / 2^k)
BigShl(a, k) ==
  BigNorm([i \in 1..(k \div LimbBits) |-> 0] \o BigMulC(a, 2 ^ (k % LimbBits), 0))

BigShr(a, k) ==
  IF k \div LimbBits >= Len(a) THEN <<>>
  ELSE BigDivSmall(SubSeq(a, (k \div LimbBits) + 1, Len(a)), 2 ^ (k % LimbBits)).q

RECURSIVE BitLen(_)
BitLen(n) == IF n = 0 THEN 0 ELSE 1 + BitLen(n \div 2)

BigBitLen(a) == IF a = <<>> THEN 0 ELSE LimbBits * (Len(a) - 1) + BitLen(a[Len(a)])

\* a number is (-1)^neg * m * 2^e with m = 0 or 2^52 <= m < 2^53
NumZero == [neg |-> FALSE, m |-> <<>>, e |-> 0]

\* the remainder rem of a division by 2 * half rounds the quotient up
RoundsUp(rem, half, tieUp) ==
  IF BigLess(half, rem) THEN TRUE
  ELSE IF BigLess(rem, half) THEN FALSE
  ELSE tieUp

\* a mantissa that was rounded up to 2^53 is 2^52 with the next exponent
NumCarry(neg, q, E) ==
  IF BigBitLen(q) > MantissaBits THEN [neg |-> neg, m |-> BigShr(q, 1), e |-> E + 1]
  ELSE [neg |-> neg, m |-> q, e |-> E]

\* M = q * 2^s + rem is cut to its upper 53 bits q, rounded to nearest, ties to even
NumRoundCut(neg, M, E, sticky, s, q) ==
  NumCarry(neg,
           IF RoundsUp(BigSub(M, BigShl(q, s)), BigShl(<<1>>, s - 1),
                       sticky \/ q[1] % 2 = 1)
           THEN BigAdd(q, <<1>>) ELSE q,
           E + s)

NumRoundLen(neg, M, E, sticky, L) ==
  IF L <= MantissaBits
  THEN [neg |-> neg, m |-> BigShl(M, MantissaBits - L), e |-> E - (MantissaBits - L)]
  ELSE NumRoundCut(neg, M, E, sticky, L - MantissaBits, BigShr(M, L - MantissaBits))

\* the number nearest to M * 2^E (plus a non-zero part below one unit of M when
\* sticky), ties to even
NumRound(neg, M, E, sticky) ==
  IF M = <<>> THEN NumZero ELSE NumRoundLen(neg, M, E, sticky, BigBitLen(M))

Abs(n) == IF n < 0 THEN 0 - n ELSE n
Min(a, b) == IF a < b THEN a ELSE b

NumOfQuotient(neg, qr, E) == NumRound(neg, qr.q, E, qr.r # 0)

\* the number nearest to n / d for an integer n and a limb d: Number() of the
\* decimal n/d, the literal n/d, and the quotient of the integers n and d
NumRatio(n, d) ==
  NumOfQuotient(n < 0, BigDivSmall(BigShl(BigOf(Abs(n)), 5 * LimbBits), d),
                0 - 5 * LimbBits)

NumOfInt(n) == NumRatio(n, 1)

\* X * 2^e + Y * 2^e with the signs given
NumAddAligned(xneg, yneg, X, Y, e) ==
  NumRound(IF xneg = yneg \/ ~BigLess(X, Y) THEN xneg ELSE yneg,
           IF xneg = yneg THEN BigAdd(X, Y)
           ELSE IF BigLess(X, Y) THEN BigSub(Y, X) ELSE BigSub(X, Y),
           e, FALSE)

\* x + y
NumAdd(x, y) ==
  IF x.m = <<>> THEN y
  ELSE IF y.m = <<>> THEN x
  ELSE NumAddAligned(x.neg, y.neg, BigShl(x.m, x.e - Min(x.e, y.e)),
                     BigShl(y.m, y.e - Min(x.e, y.e)), Min(x.e, y.e))

\* x * y
NumMul(x, y) ==
  IF x.m = <<>> \/ y.m = <<>> THEN NumZero
  ELSE NumRound(x.neg # y.neg, BigMul(x.m, y.m), x.e + y.e, FALSE)

\* m = q * 2^k + rem: q, or q + 1 when rem is a half or more (more than a half
\* for a negative number), with the sign
RoundedInt(neg, m, k, q) ==
  IF neg
  THEN 0 - (BigToInt(q)
            + (IF BigLess(BigShl(<<1>>, k - 1), BigSub(m, BigShl(q, k))) THEN 1 ELSE 0))
  ELSE BigToInt(q)
       + (IF BigLess(BigSub(m, BigShl(q, k)), BigShl(<<1>>, k - 1)) THEN 0 ELSE 1)

\* Math.round(x): the nearest integer, halves toward +infinity
MathRound(x) ==
  IF x.m = <<>> THEN 0
  ELSE IF x.e >= 0 THEN (IF x.neg THEN 0 - BigToInt(BigShl(x.m, x.e))
                         ELSE BigToInt(BigShl(x.m, x.e)))
  ELSE RoundedInt(x.neg, x.m, 0 - x.e, BigShr(x.m, 0 - x.e))

\* array.reduce((sum, x) => sum + x, 0)
RECURSIVE NumSumFrom(_, _)
NumSumFrom(sum, xs) == IF xs = <<>> THEN sum ELSE NumSumFrom(NumAdd(sum, Head(xs)), Tail(xs))

\* an amount of n cents as a number: n / 100
Amount(n) == NumRatio(n, 100)

\* Math.round(x * 100): the cents of the number x
Cents(x) == MathRound(NumMul(x, NumOfInt(100)))

\* TAX_RATE = 0.0635
TAX_RATE == NumRatio(TAX_RATE_E4, 10000)

\* m = q * 2^k + rem: q, or -q - 1 for a negative number with rem > 0
FlooredInt(neg, m, k, q) ==
  IF ~neg THEN BigToInt(q)
  ELSE IF BigShl(q, k) = m THEN 0 - BigToInt(q)
  ELSE 0 - BigToInt(q) - 1

\* Math.floor(x)
MathFloor(x) ==
  IF x.m = <<>> THEN 0
  ELSE IF x.e >= 0 THEN MathRound(x)
  ELSE FlooredInt(x.neg, x.m, 0 - x.e, BigShr(x.m, 0 - x.e))

\* a price calculation that cuts the sum off at the cent instead of rounding it
calculateItemPriceFloor(basePrice, modifiers) ==
  LET modifierTotal ==
        NumSumFrom(NumZero, [i \in 1..Len(modifiers) |-> Amount(modifiers[i].priceAdjustment)])
  IN MathFloor(NumMul(NumAdd(Amount(basePrice), modifierTotal), NumOfInt(100)))

\* calculateItemPrice: Math.round((basePrice + modifierTotal) * 100) / 100.  The
\* arguments are Number() of Decimal columns given in cents; the result is an
\* integer divided by 100 and is given as that integer (its cents).
calculateItemPrice(basePrice, modifiers) ==
  LET modifierTotal ==
        NumSumFrom(NumZero, [i \in 1..Len(modifiers) |-> Amount(modifiers[i].priceAdjustment)])
  IN Cents(NumAdd(Amount(basePrice), modifierTotal))

\* item.totalPrice as validateOrderItems computed it: unitPrice * item.quantity
TotalPriceOf(unitPrice, quantity) == NumMul(Amount(unitPrice), NumOfInt(quantity))

\* a loop over item.selectedModifiers that does not check the modifier's group
RECURSIVE ModifierErrorNoMismatch(_, _)
ModifierErrorNoMismatch(menuItem, ids) ==
  IF ids = <<>> THEN "none"
  ELSE LET id == Head(ids) IN
       IF id \notin DOMAIN Modifier THEN "ModifierNotFound"
       ELSE IF ~Modifier[id].isAvailable THEN "ModifierUnavailable"
       ELSE ModifierErrorNoMismatch(menuItem, Tail(ids))

\* the loop over item.selectedModifiers: first failing modifier decides the error
RECURSIVE ModifierError(_, _)
ModifierError(menuItem, ids) ==
  IF ids = <<>> THEN "none"
  ELSE LET id == Head(ids) IN
       IF id \notin DOMAIN Modifier THEN "ModifierNotFound"
       ELSE IF ~Modifier[id].isAvailable THEN "ModifierUnavailable"
       ELSE IF ~(\E i \in 1..Len(menuItem.modifierGroups) :
                   menuItem.modifierGroups[i] = Modifier[id].modifierGroupId)
            THEN "ModifierMismatch"
       ELSE ModifierError(menuItem, Tail(ids))

\* number of selected modifiers that are among group.modifiers
GroupCount(g, ids) == Cardinality({i \in 1..Len(ids) : ids[i] \in GroupModifiers(g)})

\* a loop over menuItem.modifierGroups that checks the minimum only
RECURSIVE GroupErrorMinOnly(_, _)
GroupErrorMinOnly(groups, ids) ==
  IF groups = <<>> THEN "none"
  ELSE LET g == ModifierGroup[Head(groups)]
           n == GroupCount(Head(groups), ids) IN
       IF g.isRequired /\ g.minSelections > 0 /\ n < g.minSelections
       THEN "InsufficientSelections"
       ELSE GroupErrorMinOnly(Tail(groups), ids)

\* the loop over menuItem.modifierGroups: first violated group decides the error
RECURSIVE GroupError(_, _)
GroupError(groups, ids) ==
  IF groups = <<>> THEN "none"
  ELSE LET g == ModifierGroup[Head(groups)]
           n == GroupCount(Head(groups), ids) IN
       IF g.isRequired /\ g.minSelections > 0 /\ n < g.minSelections
       THEN "InsufficientSelections"
       ELSE IF g.maxSelections # Null /\ n > g.maxSelections THEN "TooManySelections"
       ELSE GroupError(Tail(groups), ids)

\* an iteration that does not look at menuItem.isAvailable
LineErrorIgnoringAvailability(line) ==
  IF line.menuItemId \notin DOMAIN MenuItem THEN "ItemNotFound"
  ELSE LET menuItem == MenuItem[line.menuItemId] IN
       IF Len(line.selectedModifiers) > 0
       THEN LET e == ModifierError(menuItem, line.selectedModifiers) IN
            IF e # "none" THEN e
            ELSE GroupError(menuItem.modifierGroups, line.selectedModifiers)
       ELSE "none"

\* one iteration of the loop of validateOrderItems: the error it throws, or "none"
LineError(line) ==
  IF line.menuItemId \notin DOMAIN MenuItem THEN "ItemNotFound"
  ELSE LET menuItem == MenuItem[line.menuItemId] IN
       IF ~menuItem.isAvailable THEN "ItemUnavailable"
       ELSE IF Len(line.selectedModifiers) > 0
            THEN LET e == ModifierError(menuItem, line.selectedModifiers) IN
                 IF e # "none" THEN e
                 ELSE GroupError(menuItem.modifierGroups, line.selectedModifiers)
            ELSE "none"

\* the modifiers pushed for a line: id, name, Number(priceAdjustment) in cents
SelectedModifiers(line) ==
  [i \in 1..Len(line.selectedModifiers) |->
     [id |-> line.selectedModifiers[i],
      name |-> Modifier[line.selectedModifiers[i]].name,
      priceAdjustment |-> Modifier[line.selectedModifiers[i]].priceAdjustment]]

PricedItem(line, menuItem, mods, unitPrice) ==
  [menuItemId |-> line.menuItemId, name |-> menuItem.name,
   preparationTime |-> menuItem.preparationTime,
   printerDestination |-> menuItem.printerDestination,
   quantity |-> line.quantity, modifiers |-> mods,
   unitPrice |-> unitPrice, totalPrice |-> Cents(TotalPriceOf(unitPrice, line.quantity))]

\* the ValidatedOrderItem pushed for a line that passed
ValidatedItem(line) ==
  PricedItem(line, MenuItem[line.menuItemId], SelectedModifiers(line),
             calculateItemPrice(MenuItem[line.menuItemId].basePrice,
                                SelectedModifiers(line)))

\* a validation that leaves a failing line out and goes on
RECURSIVE validateOrderItemsSkipping(_)
validateOrderItemsSkipping(items) ==
  IF items = <<>> THEN [error |-> "none", items |-> <<>>]
  ELSE LET rest == validateOrderItemsSkipping(Tail(items)) IN
       IF LineError(Head(items)) # "none" THEN rest
       ELSE [error |-> "none", items |-> <<ValidatedItem(Head(items))>> \o rest.items]

\* validateOrderItems: [error, items]; items is empty when it throws
RECURSIVE validateOrderItems(_)
validateOrderItems(items) ==
  IF items = <<>> THEN [error |-> "none", items |-> <<>>]
  ELSE LET e == LineError(Head(items)) IN
       IF e # "none" THEN [error |-> e, items |-> <<>>]
       ELSE LET rest == validateOrderItems(Tail(items)) IN
            IF rest.error # "none" THEN rest
            ELSE [error |-> "none", items |-> <<ValidatedItem(Head(items))>> \o rest.items]

\* the returned totals for the sum of the line totals and the cents of the tax
TotalsOf(subtotal, taxCents) ==
  [subtotal |-> Cents(subtotal), taxAmount |-> taxCents,
   totalAmount |-> Cents(NumAdd(subtotal, Amount(taxCents)))]

\* the tax on the sum of the line totals: Math.round(subtotal * TAX_RATE * 100) / 100
TaxedTotals(subtotal) == TotalsOf(subtotal, Cents(NumMul(subtotal, TAX_RATE)))

\* calculateOrderTotals.  Each returned field is an integer divided by 100 and is
\* given as that integer (its cents).
calculateOrderTotals(items) ==
  TaxedTotals(NumSumFrom(NumZero, [i \in 1..Len(items) |->
                           TotalPriceOf(items[i].unitPrice, items[i].quantity)]))

\* a filter that keeps only the items whose destination is the printer type itself
getItemsForPrinterExact(items, printerType) ==
  SelectSeq(items, LAMBDA it : it.printerDestination = printerType)

\* getItemsForPrinter: the items whose destination is the printer type or BOTH
getItemsForPrinter(items, printerType) ==
  SelectSeq(items, LAMBDA it : it.printerDestination = "BOTH"
                               \/ it.printerDestination = printerType)

\* ------------------------------------------------------------------------
\* State
\* ------------------------------------------------------------------------
VARIABLES
  orders,      \* order rows by id (NoOrder: no such row)
  co,          \* one createOrder run per request: position and locals
  gw,          \* the payment gateway: state of the intent of each order
  adm,         \* the admin requests: position and locals
  calls,       \* admin calls started so far
  hooks,       \* webhook deliveries so far
  lastHook,    \* what handleWebhook returned last
  printJobs,   \* print job rows, in creation order (a job's id is its position)
  agent,       \* the print endpoints: fetches in flight, what the last request returned
  catalog,     \* the menu item and modifier rows as the admins have edited them
  stripe       \* the gateway's intents by idempotency key, and the clock (Date.now())

vars ==
  <<orders, co, gw, adm, calls, hooks, lastHook, printJobs, agent, catalog, stripe>>

\* no intent created yet
StripeIdle == [now |-> 0, intents |-> {}]

\* the catalog rows before any edit: what an order row joins to when it is read
Catalog ==
  [menuItems |-> [m \in DOMAIN MenuItem |->
                    [name |-> MenuItem[m].name, basePrice |-> MenuItem[m].basePrice,
                     isAvailable |-> MenuItem[m].isAvailable]],
   modifiers |-> [m \in DOMAIN Modifier |->
                    [name |-> Modifier[m].name,
                     priceAdjustment |-> Modifier[m].priceAdjustment,
                     isAvailable |-> Modifier[m].isAvailable]]]

CoIdle ==
  [pc |-> "start", cart |-> <<>>, items |-> <<>>,
   totals |-> [subtotal |-> 0, taxAmount |-> 0, totalAmount |-> 0],
   estimatedMinutes |-> 0, paymentIntentId |-> Null, tempOrderId |-> Null,
   confirmStatus |-> "none", error |-> "none", result |-> "none",
   refundAttempts |-> 0, refundFailed |-> FALSE, deleteAttempts |-> 0,
   deleteFailed |-> FALSE, printCalled |-> FALSE, printFailed |-> FALSE]

AdmIdle ==
  [pc |-> "idle", op |-> "none", oid |-> Null, newStatus |-> "none", amount |-> Null,
   readStatus |-> "none", readPay |-> "none",
   found |-> FALSE, refundPay |-> "none", intent |-> Null, totalAmount |-> 0,
   refundAmount |-> 0,
   gwCalls |-> 0, gwAmount |-> 0, gwFailed |-> FALSE, wrote |-> FALSE,
   result |-> "none"]

\* no webhook answered yet; signature is what the delivery came with, status and
\* code are those of the HTTP response
HookIdle ==
  [signature |-> "none", event |-> "none", handled |-> FALSE, status |-> 0,
   code |-> "none"]

\* a getPendingJobs request: position, the jobs findMany returned, those not yet marked
FetchIdle == [pc |-> "idle", jobs |-> {}, left |-> {}]

\* delivered counts, job by job, the responses that carried the job to the print
\* server (kept where the print server is followed until it has reported)
AgentIdle ==
  [retried |-> 0, printed |-> FALSE, delivered |-> <<>>,
   fetch |-> [f \in Fetchers |-> FetchIdle]]

Init ==
  /\ orders = [o \in OrderIds |-> NoOrder]
  /\ co = [r \in Reqs |-> CoIdle]
  /\ gw = [r \in Reqs |-> [state |-> "none", amount |-> 0, refunds |-> 0]]
  /\ adm = [a \in Admins |-> AdmIdle]
  /\ calls = 0
  /\ hooks = 0
  /\ lastHook = HookIdle
  /\ printJobs = <<>>
  /\ agent = AgentIdle
  /\ catalog = Catalog
  /\ stripe = StripeIdle

\* ------------------------------------------------------------------------
\* createOrder
\* ------------------------------------------------------------------------
\* number of order items of orders that are CONFIRMED or PREPARING
QueuedItems ==
  LET count[S \in SUBSET OrderIds] ==
        IF S = {} THEN 0
        ELSE LET o == CHOOSE x \in S : TRUE IN
             count[S \ {o}] +
               (IF orders[o] # NoOrder /\ orders[o].status \in {"CONFIRMED", "PREPARING"}
                THEN Len(orders[o].orderItems) ELSE 0)
  IN count[OrderIds]

\* Math.floor(x / d) * d
FloorTo(x, d) == (x \div d) * d

\* Math.ceil(x / d) * d for integers x >= 0, d > 0
CeilTo(x, d) == ((x + d - 1) \div d) * d

\* generateEstimatedReadyTime: the minutes added to now
EstimatedMinutes(items, queuedItems) ==
  LET maxPrep == IF Len(items) > 0
                 THEN MaxSeq([i \in 1..Len(items) |-> items[i].preparationTime])
                 ELSE 0
      queueDelay == (queuedItems \div 5) * TIME_PER_5_ITEMS
  IN CeilTo(BASE_PREP_TIME_MINUTES + maxPrep + queueDelay, TIME_ROUNDING)

\* the row written by prisma.order.create in step 4
ProvisionalOrder(c) ==
  [status |-> "PENDING", paymentStatus |-> "PENDING", stripePaymentIntentId |-> Null,
   subtotal |-> c.totals.subtotal, taxAmount |-> c.totals.taxAmount,
   totalAmount |-> c.totals.totalAmount, estimatedMinutes |-> c.estimatedMinutes,
   orderItems |-> [i \in 1..Len(c.items) |->
      [menuItemId |-> c.items[i].menuItemId, quantity |-> c.items[i].quantity,
       unitPrice |-> c.items[i].unitPrice, totalPrice |-> c.items[i].totalPrice,
       selectedModifiers |-> [j \in 1..Len(c.items[i].modifiers) |->
          [modifierId |-> c.items[i].modifiers[j].id,
           modifierName |-> c.items[i].modifiers[j].name,
           priceAdjustment |-> c.items[i].modifiers[j].priceAdjustment]]]]]

\* a status check that lets every returned confirmation through
PaymentSucceededAlways(status) == TRUE

\* step 7: the status of the confirmed intent that lets createOrder go on
PaymentSucceeded(status) == status = "succeeded"

\* a catch block that refunds only a payment that was confirmed as succeeded
CatchRefundsIfSucceeded(c) == c.paymentIntentId # Null /\ c.confirmStatus = "succeeded"

\* catch block: a refund is attempted iff an intent was created
CatchRefunds(c) == c.paymentIntentId # Null

\* a catch block that never deletes the provisional row
CatchDeletesNever(c) == FALSE

\* catch block: the provisional row is deleted iff it exists and no intent was created
CatchDeletes(c) == c.tempOrderId # Null /\ c.paymentIntentId = Null

\* where a throw inside the try block of createOrder lands
Thrown(c, err) ==
  IF CatchRefunds(c) \/ CatchDeletes(c)
  THEN [c EXCEPT !.pc = "catch", !.error = err]
  ELSE [c EXCEPT !.pc = "failed", !.error = err, !.result = err]

\* steps 1-3: validateOrderItems, calculateOrderTotals, generateEstimatedReadyTime
\* (validation reads only the catalog, so it is taken at the moment the queue is read)
CoValidate(r, cart) ==
  /\ co[r].pc = "start"
  /\ LET v == validateOrderItems(cart)
         c == [co[r] EXCEPT !.cart = cart] IN
     co' = [co EXCEPT ![r] =
              IF v.error # "none" THEN Thrown(c, v.error)
              ELSE [c EXCEPT !.pc = "estimated", !.items = v.items,
                             !.totals = calculateOrderTotals(v.items),
                             !.estimatedMinutes = EstimatedMinutes(v.items, QueuedItems)]]
  /\ UNCHANGED <<orders, gw, adm, calls, hooks, lastHook, printJobs, agent, catalog, stripe>>

\* step 4: prisma.order.create of the provisional order with its items
CoPersist(r) ==
  /\ co[r].pc = "estimated"
  /\ orders' = [orders EXCEPT ![r] = ProvisionalOrder(co[r])]
  /\ co' = [co EXCEPT ![r].pc = "persisted", ![r].tempOrderId = r]
  /\ UNCHANGED <<gw, adm, calls, hooks, lastHook, printJobs, agent, catalog, stripe>>

\* step 5: paymentService.createPaymentIntent (may throw)
CoCreateIntent(r, ok) ==
  /\ co[r].pc = "persisted"
  /\ IF ok
     THEN /\ gw' = [gw EXCEPT ![r].state = "created",
                              ![r].amount = co[r].totals.totalAmount]
          /\ co' = [co EXCEPT ![r].pc = "intent", ![r].paymentIntentId = r]
     ELSE /\ co' = [co EXCEPT ![r] = Thrown(co[r], "PaymentIntentError")]
          /\ UNCHANGED gw
  /\ UNCHANGED <<orders, adm, calls, hooks, lastHook, printJobs, agent, catalog, stripe>>

\* steps 6-7: paymentService.confirmPayment (may throw) and the status check
CoConfirm(r, outcome) ==
  /\ co[r].pc = "intent"
  /\ IF outcome = "throw"
     THEN /\ gw' = [gw EXCEPT ![r].state = "failed"]
          /\ co' = [co EXCEPT ![r] = Thrown(co[r], "PaymentError")]
     ELSE /\ gw' = [gw EXCEPT ![r].state = outcome]
          /\ co' = [co EXCEPT ![r] =
               IF PaymentSucceeded(outcome)
               THEN [co[r] EXCEPT !.pc = "confirmed", !.confirmStatus = outcome]
               ELSE Thrown([co[r] EXCEPT !.confirmStatus = outcome], "PaymentFailed")]
  /\ UNCHANGED <<orders, adm, calls, hooks, lastHook, printJobs, agent, catalog, stripe>>

\* step 8: the transaction that marks the order CONFIRMED / PAID (may throw)
CoUpdate(r, ok) ==
  /\ co[r].pc = "confirmed"
  /\ IF ok /\ orders[r] # NoOrder
     THEN /\ orders' = [orders EXCEPT ![r].status = "CONFIRMED",
                                      ![r].stripePaymentIntentId = co[r].paymentIntentId,
                                      ![r].paymentStatus = "PAID"]
          /\ co' = [co EXCEPT ![r].pc = "updated"]
     ELSE /\ co' = [co EXCEPT ![r] = Thrown(co[r], "DatabaseError")]
          /\ UNCHANGED orders
  /\ UNCHANGED <<gw, adm, calls, hooks, lastHook, printJobs, agent, catalog, stripe>>

\* a new print job row; handed counts the fetches that read the job since it last
\* became PENDING (history, not a column)
NewJob(o, printerType, items) ==
  [orderId |-> o, printerType |-> printerType, status |-> "PENDING", attempts |-> 0,
   lastError |-> "none", handed |-> 0,
   items |-> [i \in 1..Len(items) |-> [name |-> items[i].name,
                                       quantity |-> items[i].quantity]]]

\* createPrintJobs: the jobs it creates when create number failAt throws (0: none)
createPrintJobs(o, items, failAt) ==
  LET kitchenItems == getItemsForPrinter(items, "KITCHEN")
      beverageItems == getItemsForPrinter(items, "BEVERAGE")
      kitchen == IF Len(kitchenItems) > 0 THEN <<NewJob(o, "KITCHEN", kitchenItems)>>
                 ELSE <<>>
      beverage == IF Len(beverageItems) > 0 THEN <<NewJob(o, "BEVERAGE", beverageItems)>>
                  ELSE <<>>
      all == kitchen \o beverage
  IN IF failAt = 0 \/ failAt > Len(all) THEN all ELSE SubSeq(all, 1, failAt - 1)

\* createPrintJobs throws when create number failAt is one of its creates
PrintJobsThrows(items, failAt) ==
  failAt # 0 /\ failAt <= Len(createPrintJobs(Null, items, 0))

\* a step 9 whose catch block hands the print error on to the catch block of createOrder
AfterPrintRethrow(c, failed) ==
  IF failed THEN Thrown([c EXCEPT !.printCalled = TRUE, !.printFailed = TRUE], "PrintError")
  ELSE [c EXCEPT !.pc = "done", !.printCalled = TRUE, !.result = "ok"]

\* step 9, after createPrintJobs: its failure is logged only; return order
AfterPrint(c, failed) ==
  [c EXCEPT !.pc = "done", !.printCalled = TRUE, !.printFailed = failed, !.result = "ok"]

\* step 9: printService.createPrintJobs, its failure swallowed; then return order
CoPrint(r, failAt) ==
  /\ co[r].pc = "updated"
  /\ printJobs' = printJobs \o createPrintJobs(r, co[r].items, failAt)
  /\ co' = [co EXCEPT ![r] = AfterPrint(co[r], PrintJobsThrows(co[r].items, failAt))]
  /\ UNCHANGED <<orders, gw, adm, calls, hooks, lastHook, agent, catalog, stripe>>

\* catch block, an intent exists: one refundPayment, its failure logged; rethrow
CoCatchRefund(r, ok) ==
  /\ co[r].pc = "catch"
  /\ CatchRefunds(co[r])
  /\ gw' = [gw EXCEPT ![co[r].paymentIntentId].refunds = IF ok THEN @ + 1 ELSE @]
  /\ co' = [co EXCEPT ![r].pc = "failed", ![r].refundAttempts = @ + 1,
                      ![r].refundFailed = ~ok, ![r].result = co[r].error]
  /\ UNCHANGED <<orders, adm, calls, hooks, lastHook, printJobs, agent, catalog, stripe>>

\* catch block, no intent: prisma.order.delete, its failure logged; rethrow
CoCatchDelete(r, ok) ==
  /\ co[r].pc = "catch"
  /\ ~CatchRefunds(co[r])
  /\ CatchDeletes(co[r])
  /\ orders' = [orders EXCEPT ![co[r].tempOrderId] = IF ok THEN NoOrder ELSE @]
  /\ co' = [co EXCEPT ![r].pc = "failed", ![r].deleteAttempts = @ + 1,
                      ![r].deleteFailed = ~ok, ![r].result = co[r].error]
  /\ UNCHANGED <<gw, adm, calls, hooks, lastHook, printJobs, agent, catalog, stripe>>

createOrder(r) ==
  \/ \E cart \in OrderCarts : CoValidate(r, cart)
  \/ CoPersist(r)
  \/ \E ok \in BOOLEAN : CoCreateIntent(r, ok)
  \/ \E outcome \in {"succeeded", "requires_action", "throw"} : CoConfirm(r, outcome)
  \/ \E ok \in BOOLEAN : CoUpdate(r, ok)
  \/ \E failAt \in 0..2 : CoPrint(r, failAt)
  \/ \E ok \in BOOLEAN : CoCatchRefund(r, ok)
  \/ \E ok \in BOOLEAN : CoCatchDelete(r, ok)

\* ------------------------------------------------------------------------
\* updateOrderStatus and refundOrder
\* ------------------------------------------------------------------------
VALID_STATUS_TRANSITIONS ==
  [ PENDING   |-> {"CONFIRMED", "CANCELLED"},
    CONFIRMED |-> {"PREPARING", "CANCELLED"},
    PREPARING |-> {"READY", "CANCELLED"},
    READY     |-> {"COMPLETED", "CANCELLED"},
    COMPLETED |-> {},
    CANCELLED |-> {} ]

\* a transition check that also lets a status be set to itself
TransitionAllowedOrSame(status, newStatus) ==
  newStatus \in VALID_STATUS_TRANSITIONS[status] \cup {status}

\* allowedTransitions.includes(newStatus)
TransitionAllowed(status, newStatus) == newStatus \in VALID_STATUS_TRANSITIONS[status]

\* a cancellation that never refunds
CancelRefundsNever(newStatus, paymentStatus) == FALSE

\* the condition under which updateOrderStatus calls refundOrder
CancelRefunds(newStatus, paymentStatus) ==
  newStatus = "CANCELLED" /\ paymentStatus = "PAID"

\* amount || Number(order.totalAmount)
RefundAmount(amount, totalAmount) == IF amount # Null THEN amount ELSE totalAmount

\* the checks of refundOrder without the one on paymentStatus REFUNDED
RefundCheckNoRefunded(order, amount) ==
  IF order = NoOrder THEN "NotFound"
  ELSE IF order.stripePaymentIntentId = Null THEN "NoPaymentToRefund"
  ELSE IF RefundAmount(amount, order.totalAmount) > order.totalAmount
       THEN "RefundExceedsTotal"
  ELSE "none"

\* the checks of refundOrder before the gateway is called: the error thrown, or "none"
RefundCheck(order, amount) ==
  IF order = NoOrder THEN "NotFound"
  ELSE IF order.stripePaymentIntentId = Null THEN "NoPaymentToRefund"
  ELSE IF order.paymentStatus = "REFUNDED" THEN "AlreadyRefunded"
  ELSE IF RefundAmount(amount, order.totalAmount) > order.totalAmount
       THEN "RefundExceedsTotal"
  ELSE "none"

\* refund amounts an admin may ask for: none (full), a part, more than any total
RefundAmounts == {Null, 500, 100000}

\* the first await of refundOrder: findUnique and the checks after it
RefundEntered(rec, order) ==
  LET e == RefundCheck(order, rec.amount)
      seen == IF order = NoOrder THEN rec
              ELSE [rec EXCEPT !.found = TRUE, !.refundPay = order.paymentStatus,
                               !.intent = order.stripePaymentIntentId,
                               !.totalAmount = order.totalAmount]
  IN IF e # "none" THEN [seen EXCEPT !.pc = "done", !.result = e]
     ELSE [seen EXCEPT !.pc = "r_gateway",
                       !.refundAmount = RefundAmount(rec.amount, order.totalAmount)]

\* updateOrderStatus: findUnique, the transition check and the branch on CANCELLED
UpdateRead(a, o, s) ==
  /\ adm[a].pc = "idle"
  /\ calls < MaxCalls
  /\ calls' = calls + 1
  /\ LET order == orders[o]
         rec == [adm[a] EXCEPT !.op = "update", !.oid = o, !.newStatus = s] IN
     adm' = [adm EXCEPT ![a] =
       IF order = NoOrder THEN [rec EXCEPT !.pc = "done", !.result = "NotFound"]
       ELSE LET seen == [rec EXCEPT !.readStatus = order.status,
                                    !.readPay = order.paymentStatus] IN
            IF ~TransitionAllowed(order.status, s)
            THEN [seen EXCEPT !.pc = "done", !.result = "InvalidStatusTransition"]
            ELSE IF CancelRefunds(s, order.paymentStatus)
                 THEN [seen EXCEPT !.pc = "r_read"]
                 ELSE [seen EXCEPT !.pc = "u_write"]]
  /\ UNCHANGED <<orders, co, gw, hooks, lastHook, printJobs, agent, catalog, stripe>>

\* refundOrder called by the admin refund endpoint
RefundCall(a, o, amount) ==
  /\ adm[a].pc = "idle"
  /\ calls < MaxCalls
  /\ calls' = calls + 1
  /\ adm' = [adm EXCEPT ![a] =
       RefundEntered([adm[a] EXCEPT !.op = "refund", !.oid = o, !.amount = amount],
                     orders[o])]
  /\ UNCHANGED <<orders, co, gw, hooks, lastHook, printJobs, agent, catalog, stripe>>

\* refundOrder(orderId, adminId) called by updateOrderStatus
RefundNested(a) ==
  /\ adm[a].pc = "r_read"
  /\ adm' = [adm EXCEPT ![a] = RefundEntered(adm[a], orders[adm[a].oid])]
  /\ UNCHANGED <<orders, co, gw, calls, hooks, lastHook, printJobs, agent, catalog, stripe>>

\* refundOrder: paymentService.refundPayment (may throw)
RefundGateway(a, ok) ==
  /\ adm[a].pc = "r_gateway"
  /\ gw' = [gw EXCEPT ![adm[a].intent].refunds = IF ok THEN @ + 1 ELSE @]
  /\ adm' = [adm EXCEPT ![a] =
       LET called == [adm[a] EXCEPT !.gwCalls = @ + 1, !.gwAmount = adm[a].refundAmount]
       IN IF ok THEN [called EXCEPT !.pc = "r_write"]
          ELSE [called EXCEPT !.pc = "done", !.gwFailed = TRUE, !.result = "PaymentError"]]
  /\ UNCHANGED <<orders, co, calls, hooks, lastHook, printJobs, agent, catalog, stripe>>

\* what refundOrder does after its update: return, or back in updateOrderStatus
AfterRefund(rec) ==
  IF rec.op = "update" THEN [rec EXCEPT !.pc = "u_write"]
  ELSE [rec EXCEPT !.pc = "done", !.result = "ok"]

\* refundOrder: prisma.order.update to REFUNDED / CANCELLED
RefundWrite(a) ==
  /\ adm[a].pc = "r_write"
  /\ IF orders[adm[a].oid] = NoOrder
     THEN /\ adm' = [adm EXCEPT ![a].pc = "done", ![a].result = "DatabaseError"]
          /\ UNCHANGED orders
     ELSE /\ orders' = [orders EXCEPT ![adm[a].oid].paymentStatus = "REFUNDED",
                                      ![adm[a].oid].status = "CANCELLED"]
          /\ adm' = [adm EXCEPT ![a] = AfterRefund(adm[a])]
  /\ UNCHANGED <<co, gw, calls, hooks, lastHook, printJobs, agent, catalog, stripe>>

\* updateOrderStatus: prisma.order.update of the status
UpdateWrite(a) ==
  /\ adm[a].pc = "u_write"
  /\ IF orders[adm[a].oid] = NoOrder
     THEN /\ adm' = [adm EXCEPT ![a].pc = "done", ![a].result = "DatabaseError"]
          /\ UNCHANGED orders
     ELSE /\ orders' = [orders EXCEPT ![adm[a].oid].status = adm[a].newStatus]
          /\ adm' = [adm EXCEPT ![a].pc = "done", ![a].wrote = TRUE, ![a].result = "ok"]
  /\ UNCHANGED <<co, gw, calls, hooks, lastHook, printJobs, agent, catalog, stripe>>

\* the response is sent; the admin may issue another request
AdminReturn(a) ==
  /\ adm[a].pc = "done"
  /\ adm' = [adm EXCEPT ![a] = AdmIdle]
  /\ UNCHANGED <<orders, co, gw, calls, hooks, lastHook, printJobs, agent, catalog, stripe>>

updateOrderStatus(a) ==
  \/ \E o \in OrderIds, s \in OrderStatus : UpdateRead(a, o, s)
  \/ RefundNested(a)
  \/ UpdateWrite(a)

refundOrder(a) ==
  \/ \E o \in OrderIds, amount \in RefundAmounts : RefundCall(a, o, amount)
  \/ \E ok \in BOOLEAN : RefundGateway(a, ok)
  \/ RefundWrite(a)

\* ------------------------------------------------------------------------
\* handleWebhook (signature verified) and its event handlers
\* ------------------------------------------------------------------------
\* a delivery that reports every event as handled
DeliveredHandled(event, handled) ==
  /\ hooks < MaxHooks
  /\ hooks' = hooks + 1
  /\ lastHook' = [signature |-> "good", event |-> event, handled |-> TRUE,
                  status |-> 200, code |-> "none"]

Delivered(event, handled) ==
  /\ hooks < MaxHooks
  /\ hooks' = hooks + 1
  /\ lastHook' = [signature |-> "good", event |-> event, handled |-> handled,
                  status |-> 200, code |-> "none"]

\* payment_intent.succeeded -> handlePaymentSucceeded
WebhookPaymentSucceeded(i) ==
  /\ gw[i].state = "succeeded"
  /\ Delivered("payment_intent.succeeded", TRUE)
  /\ orders' = IF orders[i] = NoOrder THEN orders
               ELSE [orders EXCEPT ![i].paymentStatus = "PAID",
                                   ![i].stripePaymentIntentId = i]
  /\ UNCHANGED <<co, gw, adm, calls, printJobs, agent, catalog, stripe>>

\* payment_intent.payment_failed -> handlePaymentFailed
WebhookPaymentFailed(i) ==
  /\ gw[i].state = "failed"
  /\ Delivered("payment_intent.payment_failed", TRUE)
  /\ orders' = IF orders[i] = NoOrder THEN orders
               ELSE [orders EXCEPT ![i].paymentStatus = "FAILED",
                                   ![i].stripePaymentIntentId = i]
  /\ UNCHANGED <<co, gw, adm, calls, printJobs, agent, catalog, stripe>>

\* charge.refunded -> handleChargeRefunded: the order is found by its intent reference
WebhookChargeRefunded(i) ==
  /\ gw[i].refunds > 0
  /\ Delivered("charge.refunded", TRUE)
  /\ LET found == {o \in OrderIds : orders[o] # NoOrder
                                      /\ orders[o].stripePaymentIntentId = i} IN
     orders' = IF found = {} THEN orders
               ELSE LET o == CHOOSE x \in found : TRUE IN
                    [orders EXCEPT ![o].paymentStatus = "REFUNDED"]
  /\ UNCHANGED <<co, gw, adm, calls, printJobs, agent, catalog, stripe>>

\* charge.dispute.created -> handleDisputeCreated: logged only
WebhookDisputeCreated(i) ==
  /\ gw[i].state = "succeeded"
  /\ Delivered("charge.dispute.created", TRUE)
  /\ UNCHANGED <<orders, co, gw, adm, calls, printJobs, agent, catalog, stripe>>

\* any other event type: accepted, marked unhandled
WebhookOther ==
  /\ Delivered("customer.created", FALSE)
  /\ UNCHANGED <<orders, co, gw, adm, calls, printJobs, agent, catalog, stripe>>

\* the stripe-signature header of a delivery: absent, not matching the payload under
\* the configured secret, matching but with a timestamp outside the tolerance, good
Signatures == {"missing", "mismatch", "stale", "good"}

\* the message of the error constructEvent throws, as a list of words; <<>>: no error
constructEventError(signature) ==
  IF signature = "mismatch"
  THEN <<"No", "signatures", "found", "matching", "the", "expected", "signature",
         "for", "payload">>
  ELSE IF signature = "stale"
  THEN <<"Timestamp", "outside", "the", "tolerance", "zone">>
  ELSE <<>>

\* error.message.includes('signature')
IncludesSignature(message) ==
  \E k \in 1..Len(message) : message[k] \in {"signature", "signatures"}

\* a catch block of handleStripeWebhook that answers every error alike
WebhookErrorResponseGeneric(message) == [status |-> 500, code |-> "WEBHOOK_ERROR"]

\* the catch block of handleStripeWebhook
WebhookErrorResponse(message) ==
  IF IncludesSignature(message) THEN [status |-> 401, code |-> "INVALID_SIGNATURE"]
  ELSE [status |-> 500, code |-> "WEBHOOK_ERROR"]

\* a delivery that is answered without dispatching an event
WebhookRejected(signature) ==
  /\ hooks < MaxHooks
  /\ signature # "good"
  /\ hooks' = hooks + 1
  /\ lastHook' =
       IF signature = "missing"
       THEN [signature |-> signature, event |-> "none", handled |-> FALSE,
             status |-> 400, code |-> "MISSING_SIGNATURE"]
       ELSE LET r == WebhookErrorResponse(constructEventError(signature)) IN
            [signature |-> signature, event |-> "none", handled |-> FALSE,
             status |-> r.status, code |-> r.code]
  /\ UNCHANGED <<orders, co, gw, adm, calls, printJobs, agent, catalog, stripe>>

handleWebhook ==
  \/ \E i \in Reqs : WebhookPaymentSucceeded(i)
  \/ \E i \in Reqs : WebhookPaymentFailed(i)
  \/ \E i \in Reqs : WebhookChargeRefunded(i)
  \/ \E i \in Reqs : WebhookDisputeCreated(i)
  \/ WebhookOther

\* handleStripeWebhook: the signature is looked at before anything is dispatched
handleStripeWebhook ==
  \/ \E signature \in Signatures : WebhookRejected(signature)
  \/ handleWebhook

Next ==
  \/ \E r \in Reqs : createOrder(r)
  \/ \E a \in Admins : updateOrderStatus(a)
  \/ \E a \in Admins : refundOrder(a)
  \/ \E a \in Admins : AdminReturn(a)
  \/ handleWebhook

Spec == Init /\ [][Next]_vars

\* ------------------------------------------------------------------------
\* Status management of an order that createOrder has finished with: the
\* initial states are states of Spec in which the createOrder run is over.
\* ------------------------------------------------------------------------
SeedCart == <<Line("burger", 2, <<"cheese">>), Line("latte", 1, <<"large">>)>>

SeedItems == validateOrderItems(SeedCart).items

\* the locals of a createOrder run that persisted its provisional order
SeedCo ==
  [CoIdle EXCEPT !.cart = SeedCart, !.items = SeedItems,
                 !.totals = calculateOrderTotals(SeedItems),
                 !.estimatedMinutes = EstimatedMinutes(SeedItems, 0),
                 !.tempOrderId = 1]

\* createOrder returned the order: CONFIRMED / PAID, moved on by the staff to status s
SeedPaid(s) ==
  [order |-> [ProvisionalOrder(SeedCo) EXCEPT !.status = s, !.paymentStatus = "PAID",
                                              !.stripePaymentIntentId = 1],
   co |-> [SeedCo EXCEPT !.pc = "done", !.paymentIntentId = 1,
                         !.confirmStatus = "succeeded", !.printCalled = TRUE,
                         !.result = "ok"],
   gw |-> [state |-> "succeeded", amount |-> SeedCo.totals.totalAmount, refunds |-> 0],
   printJobs |-> createPrintJobs(1, SeedItems, 0)]

\* the paid order was cancelled by updateOrderStatus, which refunded it
SeedRefunded ==
  [SeedPaid("CANCELLED") EXCEPT !.order.paymentStatus = "REFUNDED", !.gw.refunds = 1]

\* the card was declined: confirmPayment threw, the refund attempt failed, and the
\* provisional order stayed behind in status s (PENDING, or CANCELLED by the staff)
SeedUnpaid(s) ==
  [order |-> [ProvisionalOrder(SeedCo) EXCEPT !.status = s],
   co |-> [SeedCo EXCEPT !.pc = "failed", !.paymentIntentId = 1, !.error = "PaymentError",
                         !.result = "PaymentError", !.refundAttempts = 1,
                         !.refundFailed = TRUE],
   gw |-> [state |-> "failed", amount |-> SeedCo.totals.totalAmount, refunds |-> 0],
   printJobs |-> <<>>]

Seeds ==
  {SeedPaid(s) : s \in {"CONFIRMED", "PREPARING", "READY", "COMPLETED"}}
    \cup {SeedRefunded} \cup {SeedUnpaid(s) : s \in {"PENDING", "CANCELLED"}}

InitStatus ==
  \E seed \in Seeds :
    /\ orders = [o \in OrderIds |-> IF o = 1 THEN seed.order ELSE NoOrder]
    /\ co = [r \in Reqs |-> seed.co]
    /\ gw = [r \in Reqs |-> seed.gw]
    /\ printJobs = seed.printJobs
    /\ adm = [a \in Admins |-> AdmIdle]
    /\ calls = 0
    /\ hooks = 0
    /\ lastHook = HookIdle
    /\ agent = AgentIdle
    /\ catalog = Catalog
    /\ stripe = StripeIdle

NextStatus ==
  \/ \E a \in Admins : updateOrderStatus(a)
  \/ \E a \in Admins : refundOrder(a)
  \/ \E a \in Admins : AdminReturn(a)
  \/ handleWebhook

SpecStatus == InitStatus /\ [][NextStatus]_vars

\* the same with the webhook endpoint in front of handleWebhook
NextHooks ==
  \/ \E a \in Admins : updateOrderStatus(a)
  \/ \E a \in Admins : refundOrder(a)
  \/ \E a \in Admins : AdminReturn(a)
  \/ handleStripeWebhook

SpecHooks == InitStatus /\ [][NextHooks]_vars

\* each seed is a state of Spec (checked as: its negation is violated under Spec)
SeedReached(seed) ==
  /\ orders[1] = seed.order
  /\ co[1] = seed.co
  /\ gw[1] = seed.gw
  /\ printJobs = seed.printJobs
  /\ \A a \in Admins : adm[a].pc = "idle"

\* ------------------------------------------------------------------------
\* The print queue: getPendingJobs (controller and service), updateJobStatus,
\* retryFailedJobs, retryJob
\* ------------------------------------------------------------------------
JobIds == 1..Len(printJobs)

\* failure reports received so far
FailuresReported == SumSeq([j \in JobIds |-> printJobs[j].attempts])

\* a where clause that also takes the jobs with exactly the maximum of attempts
RetryEligibleUpToMax(job) == job.status = "FAILED" /\ job.attempts <= MAX_RETRY_ATTEMPTS

\* the where clause of retryFailedJobs
RetryEligible(job) == job.status = "FAILED" /\ job.attempts < MAX_RETRY_ATTEMPTS

\* a job row set back to PENDING with lastError null
Requeued(job) ==
  [job EXCEPT !.status = "PENDING", !.lastError = "none",
              !.handed = IF job.status = "PENDING" THEN @ ELSE 0]

\* getPendingJobs: findMany of the PENDING jobs (far fewer than its take of 100)
FetchRead(f) ==
  /\ agent.fetch[f].pc = "idle"
  /\ LET pending == {j \in JobIds : printJobs[j].status = "PENDING"} IN
     /\ agent' = [agent EXCEPT !.retried = 0,
                               !.fetch[f] = [pc |-> "marking", jobs |-> pending,
                                             left |-> pending]]
     /\ printJobs' = [j \in JobIds |->
                        IF j \in pending THEN [printJobs[j] EXCEPT !.handed = @ + 1]
                        ELSE printJobs[j]]
  /\ UNCHANGED <<orders, co, gw, adm, calls, hooks, lastHook, catalog, stripe>>

\* one of the markJobSent updates that the controller runs under Promise.all
FetchMark(f, j) ==
  /\ agent.fetch[f].pc = "marking"
  /\ j \in agent.fetch[f].left
  /\ printJobs' = [printJobs EXCEPT ![j].status = "SENT"]
  /\ agent' = [agent EXCEPT !.retried = 0, !.fetch[f].left = @ \ {j}]
  /\ UNCHANGED <<orders, co, gw, adm, calls, hooks, lastHook, catalog, stripe>>

\* all updates are done: the jobs read are sent to the print server
FetchRespond(f) ==
  /\ agent.fetch[f].pc = "marking"
  /\ agent.fetch[f].left = {}
  /\ agent' = [agent EXCEPT !.retried = 0, !.fetch[f] = FetchIdle]
  /\ UNCHANGED <<orders, co, gw, adm, calls, hooks, lastHook, printJobs, catalog, stripe>>

getPendingJobs(f) ==
  \/ FetchRead(f)
  \/ \E j \in JobIds : FetchMark(f, j)
  \/ FetchRespond(f)

\* updateJobStatus with status PRINTED: markJobPrinted
ReportPrinted(j) ==
  /\ printJobs' = [printJobs EXCEPT ![j].status = "PRINTED"]
  /\ agent' = [agent EXCEPT !.retried = 0]
  /\ UNCHANGED <<orders, co, gw, adm, calls, hooks, lastHook, catalog, stripe>>

\* updateJobStatus with status FAILED and an error text: markJobFailed
ReportFailed(j) ==
  /\ FailuresReported < MaxFailures
  /\ printJobs' = [printJobs EXCEPT ![j].status = "FAILED", ![j].lastError = "error",
                                    ![j].attempts = @ + 1]
  /\ agent' = [agent EXCEPT !.retried = 0]
  /\ UNCHANGED <<orders, co, gw, adm, calls, hooks, lastHook, catalog, stripe>>

updateJobStatus ==
  \/ \E j \in JobIds : ReportPrinted(j)
  \/ \E j \in JobIds : ReportFailed(j)

\* retryFailedJobs: one updateMany; returns result.count
retryFailedJobs ==
  /\ printJobs' = [j \in JobIds |->
                     IF RetryEligible(printJobs[j]) THEN Requeued(printJobs[j])
                     ELSE printJobs[j]]
  /\ agent' = [agent EXCEPT
                 !.retried = Cardinality({j \in JobIds : RetryEligible(printJobs[j])})]
  /\ UNCHANGED <<orders, co, gw, adm, calls, hooks, lastHook, catalog, stripe>>

\* retryJob(jobId): an update without any condition on the row
retryJob(j) ==
  /\ printJobs' = [printJobs EXCEPT ![j] = Requeued(printJobs[j])]
  /\ agent' = [agent EXCEPT !.retried = 0]
  /\ UNCHANGED <<orders, co, gw, adm, calls, hooks, lastHook, catalog, stripe>>

\* the print queue of an order that createOrder has returned
InitPrint ==
  /\ orders = [o \in OrderIds |-> IF o = 1 THEN SeedPaid("CONFIRMED").order ELSE NoOrder]
  /\ co = [r \in Reqs |-> SeedPaid("CONFIRMED").co]
  /\ gw = [r \in Reqs |-> SeedPaid("CONFIRMED").gw]
  /\ printJobs = SeedPaid("CONFIRMED").printJobs
  /\ adm = [a \in Admins |-> AdmIdle]
  /\ calls = 0
  /\ hooks = 0
  /\ lastHook = HookIdle
  /\ agent = AgentIdle
  /\ catalog = Catalog
  /\ stripe = StripeIdle

NextPrint ==
  \/ \E f \in Fetchers : getPendingJobs(f)
  \/ updateJobStatus
  \/ retryFailedJobs
  \/ \E j \in JobIds : retryJob(j)

SpecPrint == InitPrint /\ [][NextPrint]_vars

\* ------------------------------------------------------------------------
\* Print delivery: the print server polls getPendingJobs, prints what a response
\* carries and reports each job with updateJobStatus; retryFailedJobs runs again
\* and again; nobody calls retryJob
\* ------------------------------------------------------------------------
\* markJobPrinted(jobId)
markJobPrinted(jobs, j) == [jobs EXCEPT ![j].status = "PRINTED"]

\* markJobFailed(jobId, error)
markJobFailed(jobs, j) ==
  [jobs EXCEPT ![j].status = "FAILED", ![j].lastError = "error", ![j].attempts = @ + 1]

\* the response of getPendingJobs reaches the print server, which now prints its jobs
AgentReceive(f) ==
  /\ agent.fetch[f].pc = "marking"
  /\ agent.fetch[f].left = {}
  /\ agent' = [agent EXCEPT
       !.retried = 0,
       !.delivered = [j \in DOMAIN agent.delivered |->
                        IF j \in agent.fetch[f].jobs THEN agent.delivered[j] + 1
                        ELSE agent.delivered[j]],
       !.fetch[f] = IF agent.fetch[f].jobs = {} THEN FetchIdle
                    ELSE [pc |-> "printing", jobs |-> agent.fetch[f].jobs,
                          left |-> agent.fetch[f].jobs]]
  /\ UNCHANGED <<orders, co, gw, adm, calls, hooks, lastHook, printJobs, catalog, stripe>>

\* the print server reports a job of the response: PRINTED (ok) or FAILED
AgentReport(f, j, ok) ==
  /\ agent.fetch[f].pc = "printing"
  /\ j \in agent.fetch[f].left
  /\ printJobs' = IF ok THEN markJobPrinted(printJobs, j) ELSE markJobFailed(printJobs, j)
  /\ agent' = [agent EXCEPT
       !.retried = 0,
       !.fetch[f] = IF agent.fetch[f].left = {j} THEN FetchIdle
                    ELSE [agent.fetch[f] EXCEPT !.left = @ \ {j}]]
  /\ UNCHANGED <<orders, co, gw, adm, calls, hooks, lastHook, catalog, stripe>>

\* one poll of the print server, from the request to the last report
Poll(f) ==
  \/ FetchRead(f)
  \/ \E j \in JobIds : FetchMark(f, j)
  \/ AgentReceive(f)
  \/ \E j \in JobIds, ok \in BOOLEAN : AgentReport(f, j, ok)

InitDelivery ==
  /\ orders = [o \in OrderIds |-> IF o = 1 THEN SeedPaid("CONFIRMED").order ELSE NoOrder]
  /\ co = [r \in Reqs |-> SeedPaid("CONFIRMED").co]
  /\ gw = [r \in Reqs |-> SeedPaid("CONFIRMED").gw]
  /\ printJobs = SeedPaid("CONFIRMED").printJobs
  /\ adm = [a \in Admins |-> AdmIdle]
  /\ calls = 0
  /\ hooks = 0
  /\ lastHook = HookIdle
  /\ agent = [AgentIdle EXCEPT
                !.delivered = [j \in 1..Len(SeedPaid("CONFIRMED").printJobs) |-> 0]]
  /\ catalog = Catalog
  /\ stripe = StripeIdle

NextDelivery ==
  \/ \E f \in Fetchers : Poll(f)
  \/ retryFailedJobs

\* the print server keeps polling and reporting, the sweep keeps running
SpecDelivery ==
  /\ InitDelivery
  /\ [][NextDelivery]_vars
  /\ \A f \in Fetchers : WF_vars(Poll(f))
  /\ WF_vars(retryFailedJobs)

\* ------------------------------------------------------------------------
\* createPrintJobs on the confirmed orders of different carts
\* ------------------------------------------------------------------------
PrintLines ==
  { Line("burger", 1, <<>>), Line("burger", 2, <<"cheese">>),
    Line("latte", 1, <<"large">>), Line("combo", 1, <<"fries", "salad">>) }

\* carts of one to three valid lines
PrintCarts ==
  {<<a>> : a \in PrintLines}
    \cup {<<a, b>> : a \in PrintLines, b \in PrintLines}
    \cup {<<a, b, c>> : a \in PrintLines, b \in PrintLines, c \in PrintLines}

\* createOrder has run steps 1-8 for the cart
ConfirmedRun(cart) ==
  LET items == validateOrderItems(cart).items IN
  [CoIdle EXCEPT !.pc = "updated", !.cart = cart, !.items = items,
                 !.totals = calculateOrderTotals(items),
                 !.estimatedMinutes = EstimatedMinutes(items, 0),
                 !.tempOrderId = 1, !.paymentIntentId = 1,
                 !.confirmStatus = "succeeded"]

InitJobs ==
  \E cart \in PrintCarts :
    /\ co = [r \in Reqs |-> ConfirmedRun(cart)]
    /\ orders = [o \in OrderIds |->
                   IF o = 1
                   THEN [ProvisionalOrder(ConfirmedRun(cart)) EXCEPT
                           !.status = "CONFIRMED", !.paymentStatus = "PAID",
                           !.stripePaymentIntentId = 1]
                   ELSE NoOrder]
    /\ gw = [r \in Reqs |-> [state |-> "succeeded",
                             amount |-> ConfirmedRun(cart).totals.totalAmount,
                             refunds |-> 0]]
    /\ printJobs = <<>>
    /\ adm = [a \in Admins |-> AdmIdle]
    /\ calls = 0
    /\ hooks = 0
    /\ lastHook = HookIdle
    /\ agent = AgentIdle
    /\ catalog = Catalog
    /\ stripe = StripeIdle

NextJobs == \E r \in Reqs, failAt \in 0..2 : CoPrint(r, failAt)

SpecJobs == InitJobs /\ [][NextJobs]_vars

\* ------------------------------------------------------------------------
\* The admin controller: updateOrderStatus (prints a receipt on COMPLETED),
\* printKitchenTicket, printReceipt
\* ------------------------------------------------------------------------
\* the order a handler passes to the print service: null, or whether user is
\* included and the order items with what is selected of their menu item
NullOrder == [found |-> FALSE, hasUser |-> FALSE, items |-> <<>>]

\* getOrderById: user included; of menuItem only id, name and imageUrl are selected
OrderById(o) ==
  IF orders[o] = NoOrder THEN NullOrder
  ELSE [found |-> TRUE, hasUser |-> TRUE,
        items |-> [i \in 1..Len(orders[o].orderItems) |->
                     [name |-> MenuItem[orders[o].orderItems[i].menuItemId].name,
                      quantity |-> orders[o].orderItems[i].quantity,
                      printerDestination |-> "undefined"]]]

\* the order returned by updateOrderStatus: orderItems with menuItem, no user
UpdatedOrder(o) ==
  IF orders[o] = NoOrder THEN NullOrder
  ELSE [found |-> TRUE, hasUser |-> FALSE,
        items |-> [i \in 1..Len(orders[o].orderItems) |->
                     [name |-> MenuItem[orders[o].orderItems[i].menuItemId].name,
                      quantity |-> orders[o].orderItems[i].quantity,
                      printerDestination |->
                        MenuItem[orders[o].orderItems[i].menuItemId].printerDestination]]]

\* generateReceiptData reads order.user.firstName: a TypeError without user
ReceiptThrows(order) == ~order.found \/ ~order.hasUser

\* printKitchenTicket: [printed, jobs created]; every error is caught and gives false
printKitchenTicket(o, order, ok) ==
  LET kitchenItems == getItemsForPrinter(order.items, "KITCHEN") IN
  IF ~order.found \/ Len(kitchenItems) = 0 \/ ReceiptThrows(order) \/ ~ok
  THEN [printed |-> FALSE, jobs |-> <<>>]
  ELSE [printed |-> TRUE, jobs |-> <<NewJob(o, "KITCHEN", kitchenItems)>>]

\* printReceipt: a KITCHEN job with the receipt data of the KITCHEN printer
printReceipt(o, order, ok) ==
  IF ReceiptThrows(order) \/ ~ok
  THEN [printed |-> FALSE, jobs |-> <<>>]
  ELSE [printed |-> TRUE,
        jobs |-> <<NewJob(o, "KITCHEN", getItemsForPrinter(order.items, "KITCHEN"))>>]

\* POST /admin/orders/:id/print-ticket
AdminPrintKitchenTicket(o, ok) ==
  /\ Len(printJobs) < MaxPrintJobs
  /\ LET res == printKitchenTicket(o, OrderById(o), ok) IN
     /\ printJobs' = printJobs \o res.jobs
     /\ agent' = [agent EXCEPT !.printed = res.printed]
  /\ UNCHANGED <<orders, co, gw, adm, calls, hooks, lastHook, catalog, stripe>>

\* POST /admin/orders/:id/print-receipt
AdminPrintReceipt(o, ok) ==
  /\ Len(printJobs) < MaxPrintJobs
  /\ LET res == printReceipt(o, OrderById(o), ok) IN
     /\ printJobs' = printJobs \o res.jobs
     /\ agent' = [agent EXCEPT !.printed = res.printed]
  /\ UNCHANGED <<orders, co, gw, adm, calls, hooks, lastHook, catalog, stripe>>

\* the admin controller after orderService.updateOrderStatus returned or threw:
\* printReceipt(order) when the status set is COMPLETED, then the response
AdminRespond(a) ==
  /\ adm[a].pc = "done"
  /\ adm[a].op = "update"
  /\ LET res == IF adm[a].result = "ok" /\ adm[a].newStatus = "COMPLETED"
                THEN printReceipt(adm[a].oid, UpdatedOrder(adm[a].oid), TRUE)
                ELSE [printed |-> FALSE, jobs |-> <<>>] IN
     /\ printJobs' = printJobs \o res.jobs
     /\ agent' = [agent EXCEPT !.printed = res.printed]
  /\ adm' = [adm EXCEPT ![a] = AdmIdle]
  /\ UNCHANGED <<orders, co, gw, calls, hooks, lastHook, catalog, stripe>>

NextTickets ==
  \/ \E a \in Admins, o \in OrderIds, st \in OrderStatus : UpdateRead(a, o, st)
  \/ \E a \in Admins : RefundNested(a)
  \/ \E a \in Admins, ok \in BOOLEAN : RefundGateway(a, ok)
  \/ \E a \in Admins : RefundWrite(a)
  \/ \E a \in Admins : UpdateWrite(a)
  \/ \E a \in Admins : AdminRespond(a)
  \/ \E o \in OrderIds, ok \in BOOLEAN : AdminPrintKitchenTicket(o, ok)
  \/ \E o \in OrderIds, ok \in BOOLEAN : AdminPrintReceipt(o, ok)

SpecTickets == InitStatus /\ [][NextTickets]_vars

\* ------------------------------------------------------------------------
\* Cart validation on its own: steps 1-3 of createOrder for many carts
\* ------------------------------------------------------------------------
\* menu item ids a cart may name ("ghost" is no menu item)
ItemIds == {"burger", "latte", "combo", "soup", "ghost"}

\* modifier ids a cart may name ("nomod" is no modifier)
ModifierIds ==
  {"cheese", "bacon", "avocado", "small", "large", "fries", "salad", "rice", "nomod"}

\* selectedModifiers of up to three ids
ModifierChoices ==
  {<<>>} \cup {<<a>> : a \in ModifierIds}
    \cup {<<a, b>> : a \in ModifierIds, b \in ModifierIds}
    \cup {<<a, b, c>> : a \in ModifierIds, b \in ModifierIds, c \in ModifierIds}

\* all one-line carts, the sample carts, and the sample carts put together in pairs
AllCarts ==
  {<<Line(m, 1, mods)>> : m \in ItemIds, mods \in ModifierChoices}
    \cup Carts \cup {c1 \o c2 : c1 \in Carts, c2 \in Carts}

NextCart == \E r \in Reqs, cart \in AllCarts : CoValidate(r, cart)

SpecCart == Init /\ [][NextCart]_vars

\* ------------------------------------------------------------------------
\* Pricing on its own: steps 1-3 of createOrder for carts of valid lines
\* ------------------------------------------------------------------------
MaxQuantity == 20       \* orderItemSchema: quantity is 1..20

\* the selections of modifiers each menu item on sale accepts
ValidSelections ==
  {<<m, mods>> \in {"burger", "latte", "combo"} \X ModifierChoices :
     LineError(Line(m, 1, mods)) = "none"}

\* one-line carts of every quantity, and two-line carts of many and of a few
PriceCarts ==
  {<<Line(s[1], q, s[2])>> : s \in ValidSelections, q \in 1..MaxQuantity}
    \cup {<<Line(s[1], q, s[2]), Line(t[1], p, t[2])>> :
            s \in ValidSelections, t \in ValidSelections,
            q \in {MaxQuantity}, p \in {4}}

NextPrice == \E r \in Reqs, cart \in PriceCarts : CoValidate(r, cart)

SpecPrice == Init /\ [][NextPrice]_vars

\* ------------------------------------------------------------------------
\* Catalog edits by the admins after an order was created, and reading the order
\* ------------------------------------------------------------------------
\* the rows that are edited: those the seeded order refers to
EditedMenuItems == {"burger", "latte"}
EditedModifiers == {"cheese", "large"}

\* UpdateMenuItemData / UpdateModifierData: the fields an edit sets
MenuItemEdits ==
  {[field |-> "name", value |-> "Renamed"], [field |-> "basePrice", value |-> 999]}
    \cup {[field |-> "isAvailable", value |-> b] : b \in BOOLEAN}
ModifierEdits ==
  {[field |-> "name", value |-> "Renamed"], [field |-> "priceAdjustment", value |-> 25]}
    \cup {[field |-> "isAvailable", value |-> b] : b \in BOOLEAN}

\* prisma update: the row with the field of the edit set
Updated(row, data) ==
  [f \in DOMAIN row |-> IF f = data.field THEN data.value ELSE row[f]]

updateMenuItem(m, data) ==
  /\ catalog' = [catalog EXCEPT !.menuItems[m] = Updated(@, data)]
  /\ UNCHANGED <<orders, co, gw, adm, calls, hooks, lastHook, printJobs, agent, stripe>>

\* soft delete
deleteMenuItem(m) ==
  /\ catalog' = [catalog EXCEPT !.menuItems[m].isAvailable = FALSE]
  /\ UNCHANGED <<orders, co, gw, adm, calls, hooks, lastHook, printJobs, agent, stripe>>

updateModifier(m, data) ==
  /\ catalog' = [catalog EXCEPT !.modifiers[m] = Updated(@, data)]
  /\ UNCHANGED <<orders, co, gw, adm, calls, hooks, lastHook, printJobs, agent, stripe>>

\* getOrderById: the order row, its item rows each joined to its menu item row
\* (id, name), and their selected-modifier rows
getOrderById(o) ==
  IF orders[o] = NoOrder THEN NullOrder
  ELSE [found |-> TRUE,
        subtotal |-> orders[o].subtotal, taxAmount |-> orders[o].taxAmount,
        totalAmount |-> orders[o].totalAmount,
        orderItems |-> [i \in 1..Len(orders[o].orderItems) |->
           [quantity |-> orders[o].orderItems[i].quantity,
            unitPrice |-> orders[o].orderItems[i].unitPrice,
            totalPrice |-> orders[o].orderItems[i].totalPrice,
            menuItem |-> [id |-> orders[o].orderItems[i].menuItemId,
                          name |-> catalog.menuItems[orders[o].orderItems[i].menuItemId].name],
            selectedModifiers |-> orders[o].orderItems[i].selectedModifiers]]]

NextCatalog ==
  \/ \E m \in EditedMenuItems : deleteMenuItem(m)
  \/ \E m \in EditedMenuItems, data \in MenuItemEdits : updateMenuItem(m, data)
  \/ \E m \in EditedModifiers, data \in ModifierEdits : updateModifier(m, data)

SpecCatalog == InitStatus /\ [][NextCatalog]_vars

\* ------------------------------------------------------------------------
\* generateEstimatedReadyTime with a kitchen queue: steps 1-3 of createOrder while
\* earlier orders are being prepared
\* ------------------------------------------------------------------------
MaxQueued == 11         \* order item rows of the earlier orders

\* the earlier orders, kept as one row: n order items in status s
QueuedOrder(s, n) ==
  [SeedPaid(s).order EXCEPT
     !.orderItems = [i \in 1..n |-> SeedPaid(s).order.orderItems[1]]]

InitQueue ==
  \E s \in {"CONFIRMED", "PREPARING", "READY"}, n \in 1..MaxQueued :
    /\ orders = [o \in OrderIds |-> IF o = 2 THEN QueuedOrder(s, n) ELSE NoOrder]
    /\ co = [r \in Reqs |-> CoIdle]
    /\ gw = [r \in Reqs |-> [state |-> "none", amount |-> 0, refunds |-> 0]]
    /\ adm = [a \in Admins |-> AdmIdle]
    /\ calls = 0
    /\ hooks = 0
    /\ lastHook = HookIdle
    /\ printJobs = <<>>
    /\ agent = AgentIdle
    /\ catalog = Catalog
    /\ stripe = StripeIdle

NextQueue == \E r \in Reqs, cart \in Carts : CoValidate(r, cart)

SpecEstimate == InitQueue /\ [][NextQueue]_vars

\* ------------------------------------------------------------------------
\* PaymentService.createPaymentIntent and the gateway's idempotency keys
\* ------------------------------------------------------------------------
MaxClock == 3           \* milliseconds that pass while intents are created

\* `order_${metadata.orderId || 'temp'}_${Date.now()}`; a missing order id (Null)
\* is the one that is written 'temp'
IdempotencyKey(orderId, now) == [prefix |-> "order", orderId |-> orderId, now |-> now]

\* stripe.paymentIntents.create(params, { idempotencyKey }): a key the gateway has
\* seen gives the intent made for it, a new key makes a new intent
PaymentIntentsCreate(orderId, key) ==
  IF \E pi \in stripe.intents : pi.key = key THEN stripe.intents
  ELSE stripe.intents \cup {[key |-> key, orderId |-> orderId]}

createPaymentIntent(orderId) ==
  /\ stripe' = [stripe EXCEPT
                  !.intents = PaymentIntentsCreate(orderId,
                                                   IdempotencyKey(orderId, stripe.now))]
  /\ UNCHANGED <<orders, co, gw, adm, calls, hooks, lastHook, printJobs, agent, catalog>>

\* time passes between two calls
Tick ==
  /\ stripe.now < MaxClock
  /\ stripe' = [stripe EXCEPT !.now = @ + 1]
  /\ UNCHANGED <<orders, co, gw, adm, calls, hooks, lastHook, printJobs, agent, catalog>>

NextIntent ==
  \/ \E orderId \in OrderIds \cup {Null} : createPaymentIntent(orderId)
  \/ Tick

SpecIntent == Init /\ [][NextIntent]_vars

\* ------------------------------------------------------------------------
\* Properties
\* ------------------------------------------------------------------------
\* the transition table as the specification lists it
ListedTransitions ==
  {<<"PENDING", "CONFIRMED">>, <<"PENDING", "CANCELLED">>,
   <<"CONFIRMED", "PREPARING">>, <<"CONFIRMED", "CANCELLED">>,
   <<"PREPARING", "READY">>, <<"PREPARING", "CANCELLED">>,
   <<"READY", "COMPLETED">>, <<"READY", "CANCELLED">>}

\* admin a's updateOrderStatus call on an existing order returns in this step
UpdateReturns(a) ==
  /\ adm[a].pc # "done"
  /\ adm'[a].pc = "done"
  /\ adm'[a].op = "update"
  /\ adm'[a].readStatus # "none"

\* the errors with which the refund inside a cancellation, or the final update, can fail
PropagatedErrors ==
  {"PaymentError", "NotFound", "NoPaymentToRefund", "AlreadyRefunded",
   "RefundExceedsTotal", "DatabaseError"}

\* C1 as stated: an updateOrderStatus call on an order whose pair (current status,
\* requested status) is listed succeeds and persists the requested status; for any
\* other pair it is rejected with an invalid-transition error and the order is unchanged.
C1_AsStated ==
  [][\A a \in Admins : UpdateReturns(a) =>
       LET rec == adm'[a] IN
       IF <<rec.readStatus, rec.newStatus>> \in ListedTransitions
       THEN rec.result = "ok" /\ orders'[rec.oid].status = rec.newStatus
       ELSE rec.result = "InvalidStatusTransition" /\ orders' = orders]_vars

\* C1 amended: a pair that is not listed is rejected with an invalid-transition error
\* and the order is unchanged; a listed pair passes the check, and the call then
\* succeeds and persists the requested status, unless the refund that cancelling a
\* PAID order runs first is rejected or fails, or the final update fails: then that
\* error propagates and the step in which it arises changes no order.
C1_TransitionTable ==
  [][\A a \in Admins : UpdateReturns(a) =>
       LET rec == adm'[a] IN
       IF <<rec.readStatus, rec.newStatus>> \in ListedTransitions
       THEN \/ rec.result = "ok" /\ orders'[rec.oid].status = rec.newStatus
            \/ /\ rec.result \in PropagatedErrors
               /\ rec.result # "DatabaseError" =>
                    rec.newStatus = "CANCELLED" /\ rec.readPay = "PAID"
               /\ ~rec.wrote
               /\ orders' = orders
       ELSE rec.result = "InvalidStatusTransition" /\ orders' = orders]_vars

\* C1 witness: one call made READY -> COMPLETED and returned, another one was then
\* rejected on the COMPLETED order
C1_Witness ==
  \E a, b \in Admins :
    /\ a # b
    /\ adm[a].pc = "done" /\ adm[a].op = "update" /\ adm[a].result = "ok"
    /\ adm[a].readStatus = "READY" /\ adm[a].newStatus = "COMPLETED"
    /\ adm[b].pc = "done" /\ adm[b].op = "update"
    /\ adm[b].readStatus = "COMPLETED" /\ adm[b].result = "InvalidStatusTransition"

\* C2 as stated: once an order's status is COMPLETED or CANCELLED, no step of any
\* operation changes the status of that order to a different value.
C2_TerminalStatuses ==
  [][\A o \in OrderIds :
       (orders[o] # NoOrder /\ orders[o].status \in {"COMPLETED", "CANCELLED"}
        /\ orders'[o] # NoOrder)
       => orders'[o].status = orders[o].status]_vars

\* C3 as stated: two updateOrderStatus calls on the same order never both report
\* success after having read the same current status.
C3_Serialized ==
  \A a, b \in Admins :
    (a # b /\ adm[a].op = "update" /\ adm[b].op = "update"
     /\ adm[a].pc = "done" /\ adm[b].pc = "done"
     /\ adm[a].oid = adm[b].oid /\ adm[a].readStatus = adm[b].readStatus)
    => ~(adm[a].result = "ok" /\ adm[b].result = "ok")

\* the print jobs created for order o
JobsOf(o) == SelectSeq(printJobs, LAMBDA j : j.orderId = o)

C5_NoOrderLeft ==
  \A r \in Reqs :
    (co[r].pc = "failed" /\ co[r].confirmStatus \notin {"none", "succeeded"})
    => orders[r] = NoOrder /\ JobsOf(r) = <<>>

\* the error createOrder throws for the stage it failed in after the intent was created
StageError(c) ==
  IF c.confirmStatus = "none" THEN "PaymentError"
  ELSE IF c.confirmStatus = "succeeded" THEN "DatabaseError"
  ELSE "PaymentFailed"

FailedBeforeIntent(r) ==
  /\ co[r].result \notin {"none", "ok"}
  /\ co[r].tempOrderId # Null
  /\ co[r].paymentIntentId = Null

\* C7 as stated: when createOrder fails after the provisional order was persisted and
\* before an intent was created, the provisional row is gone and no refund is attempted.
C7_AsStated ==
  \A r \in Reqs :
    FailedBeforeIntent(r) => orders[r] = NoOrder /\ co[r].refundAttempts = 0

\* C7 amended: in that case exactly one delete of the provisional row is attempted and
\* no refund; the row is gone unless the delete itself failed (that failure is only
\* logged), and the caller gets the error of createPaymentIntent.
C7_DeleteAttempted ==
  \A r \in Reqs :
    FailedBeforeIntent(r) =>
      /\ co[r].deleteAttempts = 1
      /\ co[r].refundAttempts = 0 /\ gw[r].refunds = 0 /\ gw[r].state = "none"
      /\ co[r].deleteFailed \/ orders[r] = NoOrder
      /\ co[r].result = "PaymentIntentError"

\* C7 witness: createPaymentIntent failed and the provisional row was deleted
C7_Witness ==
  FailedBeforeIntent(1) /\ ~co[1].deleteFailed /\ orders[1] = NoOrder

\* carts that validateOrderItems must reject: an unavailable item, a modifier of a
\* group the item does not have
RejectedCarts ==
  { <<Line("soup", 1, <<>>)>>, <<Line("burger", 1, <<"large">>)>> }

\* C8: a createOrder request whose cart fails validation ends with the validation
\* error and has created no order row, no payment intent, no refund and no print job.
C8_ValidationNoSideEffects ==
  \A r \in Reqs :
    (co[r].pc # "start" /\ co[r].cart \in RejectedCarts) =>
      /\ co[r].pc = "failed"
      /\ co[r].result \in {"ItemUnavailable", "ModifierMismatch"}
      /\ orders[r] = NoOrder /\ co[r].tempOrderId = Null
      /\ gw[r].state = "none" /\ co[r].paymentIntentId = Null
      /\ gw[r].refunds = 0 /\ co[r].refundAttempts = 0 /\ co[r].deleteAttempts = 0
      /\ JobsOf(r) = <<>> /\ ~co[r].printCalled

\* C8 witness: the cart with the unavailable item was rejected
C8_Witness ==
  co[1].pc = "failed" /\ co[1].result = "ItemUnavailable"

\* admin a is in an updateOrderStatus call that cancels an order it read as PAID
CancelsPaid(a) ==
  adm[a].op = "update" /\ adm[a].newStatus = "CANCELLED" /\ adm[a].readPay = "PAID"

ListedRejection(rec) ==
  IF ~rec.found THEN "NotFound"
  ELSE IF rec.intent = Null THEN "NoPaymentToRefund"
  ELSE IF rec.refundPay = "REFUNDED" THEN "AlreadyRefunded"
  ELSE IF rec.amount # Null /\ rec.amount > rec.totalAmount THEN "RefundExceedsTotal"
  ELSE "none"

\* admin a's refundOrder call returns in this step
RefundReturns(a) ==
  adm[a].pc # "done" /\ adm'[a].pc = "done" /\ adm'[a].op = "refund"

\* C10 as stated: refundOrder rejects with NotFound, NoPaymentToRefund, AlreadyRefunded
\* or RefundExceedsTotal without calling the gateway and without changing the order;
\* otherwise it calls the gateway once and sets paymentStatus REFUNDED, status CANCELLED.
C10_AsStated ==
  [][\A a \in Admins : RefundReturns(a) =>
       LET rec == adm'[a] IN
       IF ListedRejection(rec) # "none"
       THEN rec.result = ListedRejection(rec) /\ rec.gwCalls = 0 /\ orders' = orders
       ELSE /\ rec.gwCalls = 1 /\ rec.result = "ok"
            /\ orders'[rec.oid].paymentStatus = "REFUNDED"
            /\ orders'[rec.oid].status = "CANCELLED"]_vars

\* C10 amended: the four rejections are as stated; otherwise refundOrder calls the
\* gateway once, for the requested amount or else the order total, and when that call
\* returns it sets paymentStatus REFUNDED and status CANCELLED; when the gateway call
\* fails, refundOrder fails with a payment error and the order is unchanged.
C10_RefundOrder ==
  [][\A a \in Admins : RefundReturns(a) =>
       LET rec == adm'[a] IN
       IF ListedRejection(rec) # "none"
       THEN rec.result = ListedRejection(rec) /\ rec.gwCalls = 0 /\ orders' = orders
       ELSE /\ rec.gwCalls = 1
            /\ rec.gwAmount = (IF rec.amount # Null THEN rec.amount ELSE rec.totalAmount)
            /\ \/ /\ rec.result = "ok" /\ ~rec.gwFailed
                  /\ orders'[rec.oid].paymentStatus = "REFUNDED"
                  /\ orders'[rec.oid].status = "CANCELLED"
               \/ /\ rec.result = "PaymentError" /\ rec.gwFailed
                  /\ orders' = orders]_vars

\* C10 witness: one refundOrder call refunded the order and a later one was rejected
\* as already refunded
C10_Witness ==
  \E a, b \in Admins :
    /\ adm[a].op = "refund" /\ adm[a].pc = "done" /\ adm[a].result = "ok"
    /\ adm[a].gwCalls = 1
    /\ adm[b].op = "refund" /\ adm[b].pc = "done" /\ adm[b].result = "AlreadyRefunded"
    /\ adm[b].gwCalls = 0
    /\ orders[adm[a].oid].paymentStatus = "REFUNDED"

\* the status changes of the print job lifecycle
JobLifecycle ==
  {<<"PENDING", "SENT">>, <<"SENT", "PRINTED">>, <<"SENT", "FAILED">>,
   <<"FAILED", "PENDING">>}

\* C11 as stated: no job is read by a second fetch while it is still PENDING from the
\* first one, and every job a fetch returns is SENT when that fetch responds.
C11_PullAndMark ==
  [][/\ \A j \in JobIds : printJobs'[j].handed <= 1
     /\ \A f \in Fetchers : FetchRespond(f) =>
          \A j \in agent.fetch[f].jobs : printJobs[j].status = "SENT"]_vars

\* C12 as stated: every status change of a print job is one of PENDING -> SENT,
\* SENT -> PRINTED, SENT -> FAILED, FAILED -> PENDING.
C12_Lifecycle ==
  [][\A j \in JobIds :
       printJobs'[j].status # printJobs[j].status =>
         <<printJobs[j].status, printJobs'[j].status>> \in JobLifecycle]_vars

\* C13: a retryFailedJobs call sets exactly the jobs that are FAILED with fewer than 3
\* attempts to PENDING with the error text cleared, returns their number, leaves the
\* other jobs and every attempt counter as they are, and leaves no job that a second
\* call would change; with no such job it returns 0 and changes no job.
C13_RetrySweep ==
  [][retryFailedJobs =>
       LET eligible == {j \in JobIds : printJobs[j].status = "FAILED"
                                        /\ printJobs[j].attempts < 3} IN
       /\ Len(printJobs') = Len(printJobs)
       /\ \A j \in eligible :
            /\ printJobs'[j].status = "PENDING" /\ printJobs'[j].lastError = "none"
            /\ printJobs'[j].attempts = printJobs[j].attempts
            /\ printJobs'[j].orderId = printJobs[j].orderId
            /\ printJobs'[j].printerType = printJobs[j].printerType
            /\ printJobs'[j].items = printJobs[j].items
       /\ \A j \in JobIds \ eligible : printJobs'[j] = printJobs[j]
       /\ agent'.retried = Cardinality(eligible)
       /\ eligible = {} => printJobs' = printJobs /\ agent'.retried = 0
       /\ \A j \in JobIds : ~(printJobs'[j].status = "FAILED"
                              /\ printJobs'[j].attempts < 3)]_vars

\* C13 witness: a sweep has just requeued one job that had failed twice
C13_Witness ==
  /\ agent.retried = 1
  /\ \E j \in JobIds : /\ printJobs[j].status = "PENDING" /\ printJobs[j].attempts = 2
                       /\ printJobs[j].lastError = "none"

\* C14 as stated: a failure report adds exactly 1 to the attempt counter of its job, no
\* counter ever decreases, and a job that is FAILED with 3 or more attempts leaves
\* FAILED only by a retryJob call on it.
C14_BoundedRetry ==
  [][\A j \in JobIds :
       /\ printJobs'[j].attempts >= printJobs[j].attempts
       /\ ReportFailed(j) => printJobs'[j].attempts = printJobs[j].attempts + 1
       /\ (printJobs[j].status = "FAILED" /\ printJobs[j].attempts >= 3
           /\ printJobs'[j].status # "FAILED") => retryJob(j)]_vars

\* the items of an order that go to a station, as the specification routes them
RoutedTo(items, station) ==
  SelectSeq(items, LAMBDA it : it.printerDestination \in {station, "BOTH"})

\* the job of a station as the specification describes it
StationJob(o, items, station) ==
  LET routed == RoutedTo(items, station) IN
  IF routed = <<>> THEN <<>>
  ELSE << [orderId |-> o, printerType |-> station, status |-> "PENDING", attempts |-> 0,
           lastError |-> "none", handed |-> 0,
           items |-> [i \in 1..Len(routed) |->
                        [name |-> routed[i].name, quantity |-> routed[i].quantity]]] >>

\* C15: when createPrintJobs has returned for a confirmed order, the order's print jobs
\* are a PENDING KITCHEN job iff an item has destination KITCHEN or BOTH and a PENDING
\* BEVERAGE job iff an item has destination BEVERAGE or BOTH, each listing exactly the
\* items routed to its station; a station without items has no job.
C15_Partition ==
  \A r \in Reqs :
    (co[r].printCalled /\ ~co[r].printFailed) =>
      JobsOf(r) = StationJob(r, co[r].items, "KITCHEN")
                    \o StationJob(r, co[r].items, "BEVERAGE")

\* C15 witness: an order of BOTH items only got two jobs that list the same items
C15_Witness ==
  /\ co[1].printCalled /\ ~co[1].printFailed
  /\ \A i \in 1..Len(co[1].items) : co[1].items[i].printerDestination = "BOTH"
  /\ Len(printJobs) = 2
  /\ printJobs[1].printerType = "KITCHEN" /\ printJobs[2].printerType = "BEVERAGE"
  /\ printJobs[1].items = printJobs[2].items

\* C16 as stated: every order has at most one KITCHEN print job and at most one
\* BEVERAGE print job.
C16_OneJobPerStation ==
  \A o \in OrderIds, station \in {"KITCHEN", "BEVERAGE"} :
    Cardinality({j \in JobIds : printJobs[j].orderId = o
                                /\ printJobs[j].printerType = station}) <= 1

\* C17: when createPrintJobs throws in step 9, createOrder returns the order in that
\* same step, which changes neither the order nor the payment: the order keeps its
\* payment-intent reference and, unless an admin call has changed it meanwhile, is
\* CONFIRMED and PAID; no refund is attempted by the run, then or later.
C17_PrintFailureKeepsOrder ==
  [][\A r \in Reqs :
       /\ (~co[r].printFailed /\ co'[r].printFailed) =>
            /\ co'[r].pc = "done" /\ co'[r].result = "ok"
            /\ orders' = orders /\ gw' = gw
            /\ orders[r] # NoOrder
            /\ orders[r].stripePaymentIntentId = co[r].paymentIntentId
            /\ calls = 0 => orders[r].status = "CONFIRMED"
                            /\ orders[r].paymentStatus = "PAID"
       /\ co'[r].printFailed =>
            /\ co'[r].pc = "done" /\ co'[r].result = "ok"
            /\ co'[r].refundAttempts = 0 /\ co'[r].deleteAttempts = 0
            /\ orders'[r] # NoOrder]_vars

\* C17 witness: createPrintJobs threw, the order was returned and is CONFIRMED / PAID
C17_Witness ==
  /\ co[1].printFailed /\ co[1].pc = "done" /\ co[1].result = "ok"
  /\ orders[1].status = "CONFIRMED" /\ orders[1].paymentStatus = "PAID"
  /\ orders[1].stripePaymentIntentId = 1 /\ gw[1].refunds = 0

\* number of modifiers of group g that a cart line selects
SelectedOf(line, g) ==
  Cardinality({k \in 1..Len(line.selectedModifiers) :
                 /\ line.selectedModifiers[k] \in DOMAIN Modifier
                 /\ Modifier[line.selectedModifiers[k]].modifierGroupId = g})

\* the groups of the menu item of a cart line
GroupsOf(line) ==
  IF line.menuItemId \in DOMAIN MenuItem
  THEN {MenuItem[line.menuItemId].modifierGroups[k] :
          k \in 1..Len(MenuItem[line.menuItemId].modifierGroups)}
  ELSE {}

\* C18 as stated: a cart is accepted only if every line selects at least minSelections
\* modifiers of every required group (minSelections > 0) of its menu item, also when
\* the line selects no modifier at all.
C18_RequiredGroups ==
  \A r \in Reqs :
    co[r].pc = "estimated" =>
      \A i \in 1..Len(co[r].cart) : \A g \in GroupsOf(co[r].cart[i]) :
        (ModifierGroup[g].isRequired /\ ModifierGroup[g].minSelections > 0)
        => SelectedOf(co[r].cart[i], g) >= ModifierGroup[g].minSelections

\* a cart line whose menu item is on sale and whose modifiers all exist, are on
\* sale and belong to a group of the menu item
LineOk(line) ==
  /\ line.menuItemId \in DOMAIN MenuItem
  /\ MenuItem[line.menuItemId].isAvailable
  /\ \A k \in 1..Len(line.selectedModifiers) :
       /\ line.selectedModifiers[k] \in DOMAIN Modifier
       /\ Modifier[line.selectedModifiers[k]].isAvailable
       /\ Modifier[line.selectedModifiers[k]].modifierGroupId \in GroupsOf(line)

\* position of group g in the menu item's list of groups
GroupIndex(line, g) ==
  CHOOSE k \in 1..Len(MenuItem[line.menuItemId].modifierGroups) :
    MenuItem[line.menuItemId].modifierGroups[k] = g

\* group g of the line's menu item has too few or too many selections
GroupViolated(line, g) ==
  \/ /\ ModifierGroup[g].isRequired
     /\ ModifierGroup[g].minSelections > 0
     /\ SelectedOf(line, g) < ModifierGroup[g].minSelections
  \/ /\ ModifierGroup[g].maxSelections # Null
     /\ SelectedOf(line, g) > ModifierGroup[g].maxSelections

\* C19: a group with minSelections = maxSelections = 2 rejects a line that selects
\* one (insufficient selections) or three (too many selections) of its modifiers and
\* accepts exactly two; in general a line that selects more modifiers of a group than
\* its non-null maxSelections is rejected, with the too-many-selections error when
\* no group before it in the menu item's list is violated.
C19_SelectionBounds ==
  \A r \in Reqs :
    (co[r].pc # "start" /\ Len(co[r].cart) >= 1 /\ LineOk(co[r].cart[1])) =>
      LET line == co[r].cart[1] IN
      /\ \A g \in GroupsOf(line) :
           (ModifierGroup[g].maxSelections # Null
              /\ SelectedOf(line, g) > ModifierGroup[g].maxSelections) =>
             /\ co[r].pc = "failed"
             /\ co[r].items = <<>>
             /\ (\A h \in GroupsOf(line) :
                   GroupIndex(line, h) < GroupIndex(line, g) => ~GroupViolated(line, h))
                => co[r].error = "TooManySelections"
      /\ (line.menuItemId = "combo" /\ Len(co[r].cart) = 1) =>
           /\ ModifierGroup["sides"].minSelections = 2
           /\ ModifierGroup["sides"].maxSelections = 2
           /\ SelectedOf(line, "sides") = 1 => co[r].error = "InsufficientSelections"
           /\ SelectedOf(line, "sides") = 3 => co[r].error = "TooManySelections"
           /\ SelectedOf(line, "sides") = 2 =>
                (co[r].pc = "estimated" /\ co[r].error = "none" /\ Len(co[r].items) = 1)

\* a combo line with three sides has been rejected with the too-many-selections error
C19_Witness ==
  \E r \in Reqs :
    /\ co[r].pc = "failed"
    /\ co[r].error = "TooManySelections"
    /\ Len(co[r].cart) = 1
    /\ co[r].cart[1].menuItemId = "combo"
    /\ SelectedOf(co[r].cart[1], "sides") = 3

\* the error the first failing existence, availability or membership check of a
\* line that is not LineOk gives
ExpectedLineError(line) ==
  IF line.menuItemId \notin DOMAIN MenuItem THEN "ItemNotFound"
  ELSE IF ~MenuItem[line.menuItemId].isAvailable THEN "ItemUnavailable"
  ELSE LET ids == line.selectedModifiers
           bad == {k \in 1..Len(ids) :
                     \/ ids[k] \notin DOMAIN Modifier
                     \/ ~Modifier[ids[k]].isAvailable
                     \/ Modifier[ids[k]].modifierGroupId \notin GroupsOf(line)}
           k0  == CHOOSE k \in bad : \A j \in bad : k <= j IN
       IF ids[k0] \notin DOMAIN Modifier THEN "ModifierNotFound"
       ELSE IF ~Modifier[ids[k0]].isAvailable THEN "ModifierUnavailable"
       ELSE "ModifierMismatch"

ExactUnitCents(line) ==
  MenuItem[line.menuItemId].basePrice
    + SumSeq([k \in 1..Len(line.selectedModifiers) |->
                Modifier[line.selectedModifiers[k]].priceAdjustment])

C22_Totals ==
  \A r \in Reqs :
    co[r].pc = "estimated" =>
      LET subtotal == SumSeq([i \in 1..Len(co[r].cart) |->
                                ExactUnitCents(co[r].cart[i]) * co[r].cart[i].quantity]) IN
      /\ co[r].totals.subtotal = subtotal
      /\ co[r].totals.taxAmount = RoundDiv(subtotal * TAX_RATE_E4, 10000)
      /\ co[r].totals.totalAmount = co[r].totals.subtotal + co[r].totals.taxAmount
      /\ subtotal = 1940 => (co[r].totals.taxAmount = 123 /\ co[r].totals.totalAmount = 2063)

VerifiedDelivery == hooks' = hooks + 1 /\ lastHook'.signature = "good"

\* the order rows after each existing order in the set got the changes of Change(_)
OrdersWith(set, Change(_)) ==
  [o \in OrderIds |-> IF o \in set /\ orders[o] # NoOrder THEN Change(orders[o])
                      ELSE orders[o]]

\* the order named in the event metadata, and the intent of the event
EventOrder == CHOOSE i \in Reqs : TRUE

MarkPaid(order) ==
  [order EXCEPT !.paymentStatus = "PAID", !.stripePaymentIntentId = EventOrder]
MarkFailed(order) == [order EXCEPT !.paymentStatus = "FAILED"]
MarkFailedWithIntent(order) ==
  [order EXCEPT !.paymentStatus = "FAILED", !.stripePaymentIntentId = EventOrder]
MarkRefunded(order) == [order EXCEPT !.paymentStatus = "REFUNDED"]

\* what a verified delivery does apart from a payment-failed event
OtherEventEffects ==
  /\ lastHook'.status = 200
  /\ lastHook'.handled
       = (lastHook'.event \in {"payment_intent.succeeded", "payment_intent.payment_failed",
                               "charge.refunded", "charge.dispute.created"})
  /\ lastHook'.event = "payment_intent.succeeded"
       => orders' = OrdersWith({EventOrder}, MarkPaid)
  /\ lastHook'.event = "charge.refunded"
       => orders' = OrdersWith({o \in OrderIds : orders[o] # NoOrder
                                  /\ orders[o].stripePaymentIntentId = EventOrder},
                               MarkRefunded)
  /\ lastHook'.event \notin {"payment_intent.succeeded", "payment_intent.payment_failed",
                             "charge.refunded"}
       => orders' = orders

AsCreated(c) ==
  [subtotal |-> c.totals.subtotal, taxAmount |-> c.totals.taxAmount,
   totalAmount |-> c.totals.totalAmount,
   items |-> [i \in 1..Len(c.items) |->
      [name |-> c.items[i].name, quantity |-> c.items[i].quantity,
       unitPrice |-> c.items[i].unitPrice, totalPrice |-> c.items[i].totalPrice,
       modifiers |-> [j \in 1..Len(c.items[i].modifiers) |->
          [name |-> c.items[i].modifiers[j].name,
           priceAdjustment |-> c.items[i].modifiers[j].priceAdjustment]]]]]

\* the same fields of what getOrderById returns
AsRead(order) ==
  [subtotal |-> order.subtotal, taxAmount |-> order.taxAmount,
   totalAmount |-> order.totalAmount,
   items |-> [i \in 1..Len(order.orderItems) |->
      [name |-> order.orderItems[i].menuItem.name,
       quantity |-> order.orderItems[i].quantity,
       unitPrice |-> order.orderItems[i].unitPrice,
       totalPrice |-> order.orderItems[i].totalPrice,
       modifiers |-> [j \in 1..Len(order.orderItems[i].selectedModifiers) |->
          [name |-> order.orderItems[i].selectedModifiers[j].modifierName,
           priceAdjustment |-> order.orderItems[i].selectedModifiers[j].priceAdjustment]]]]]

\* C25 as stated: whatever the admins edit in the catalog after an order was
\* created, getOrderById returns its item names, quantities, unit prices, line
\* totals, modifier names and adjustments, subtotal, tax and total as they were at
\* creation.
C25_HistoricalOrders ==
  \A r \in Reqs :
    orders[r] # NoOrder => AsRead(getOrderById(r)) = AsCreated(co[r])

\* C26 as stated: however often and whenever createPaymentIntent is called for an
\* order id, the gateway holds one payment intent for that order.
C26_OneIntentPerOrder ==
  \A a \in stripe.intents : \A b \in stripe.intents :
    (a.orderId # Null /\ a.orderId = b.orderId) => a = b

\* the largest preparation time among validated items, 0 for none
MaxPrepOf(items) ==
  IF items = <<>> THEN 0
  ELSE CHOOSE p \in {items[i].preparationTime : i \in 1..Len(items)} :
         \A i \in 1..Len(items) : items[i].preparationTime <= p

\* ceil(x / d) for naturals: the least k with k * d >= x
CeilOf(x, d) == CHOOSE k \in 0..x : k * d >= x /\ (k = 0 \/ (k - 1) * d < x)

\* floor(x / d) for naturals: the greatest k with k * d <= x
FloorOf(x, d) == CHOOSE k \in 0..x : k * d <= x /\ (k + 1) * d > x

\* M = 5 * ceil((5 + maxPrep + 2 * floor(n / 5)) / 5)
StatedMinutes(maxPrep, n) == 5 * CeilOf(5 + maxPrep + 2 * FloorOf(n, 5), 5)

\* an item that takes p minutes to prepare
Prepared(p) == <<[preparationTime |-> p]>>

C28_ServedOnlyIfPaid ==
  \A o \in OrderIds :
    (orders[o] # NoOrder /\
     orders[o].status \in {"CONFIRMED", "PREPARING", "READY", "COMPLETED"}) =>
      /\ orders[o].paymentStatus \in {"PAID", "REFUNDED"}
      /\ orders[o].stripePaymentIntentId # Null

\* C29 as stated: over all interleavings of refundOrder, updateOrderStatus(CANCELLED)
\* and webhook deliveries, the gateway refunds the payment of an order at most once.
C29_RefundedAtMostOnce == \A i \in Reqs : gw[i].refunds <= 1

\* a job at rest: PRINTED, or FAILED with its attempts used up
Delivered30(j) ==
  \/ printJobs[j].status = "PRINTED"
  \/ printJobs[j].status = "FAILED" /\ printJobs[j].attempts >= MAX_RETRY_ATTEMPTS

\* every job is at rest from some moment on
C30_Settles == <>[](\A j \in JobIds : Delivered30(j))

\* a job at rest stays at rest
C30_Stays ==
  [][\A j \in JobIds : Delivered30(j) => printJobs'[j] = printJobs[j]]_vars

\* no job is carried to the print server more than MAX_RETRY_ATTEMPTS times
C30_HandedAtMostThrice ==
  \A j \in DOMAIN agent.delivered : agent.delivered[j] <= MAX_RETRY_ATTEMPTS

\* C30 as stated: with a print server that keeps polling and reports every job it
\* was given, and sweeps of retryFailedJobs running again and again, every print job
\* eventually is PRINTED or FAILED with attempts >= 3 and stays so, having been
\* handed to the print server at most 3 times.
C30_DeliveryTerminates == C30_Settles /\ C30_Stays /\ []C30_HandedAtMostThrice

====
